---- MODULE Spec2Model ----
(***************************************************************************)
(* Model of the document summarization agent (model_doc_agent):            *)
(*   - TextChunker.chunk_text            (src/chunker.py)                  *)
(*   - CacheManager                      (src/cache.py)                    *)
(*   - LLMSummarizer.summarize           (src/summarization.py)            *)
(*   - run_summarization                 (src/orchestrator.py)             *)
(* Texts are sequences of characters; Python slices are modelled by Slice. *)
(***************************************************************************)
EXTENDS Integers, Sequences, FiniteSets, TLC

VARIABLES
    \* ---- TextChunker.chunk_text ----
    text,             \* the text argument
    max_chunk_size,   \* self.max_chunk_size
    overlap,          \* self.overlap
    start,            \* local: window start
    chunk_index,      \* local: index given to the next chunk
    chunks,           \* local: list of chunks built so far
    cpc,              \* position: "off" | "entry" | "loop" | "returned"
    tailEmitted,      \* history: the tail branch (line 240 / 238) appended a chunk
    \* ---- CacheManager and the cache directory on disk ----
    cm_enabled_arg,   \* the `enabled` argument the manager was built with
    cm_enabled,       \* self.enabled
    cacheDirExists,   \* os.path.exists(self.cache_dir)
    cacheFiles,       \* the hashes h for which <cache_dir>/<h>.cache exists
    dirCreated,       \* history: this manager's constructor created the directory
    written,          \* history: hashes whose cache file this manager wrote
    marked,           \* history: hashes for which mark_cached has been called
    lastCall,         \* history: the last CacheManager call and what it returned
    \* ---- run_summarization and its environment ----
    files,            \* files_to_process (the discovered input files)
    prompts,          \* summarizer.prompts
    max_retries,      \* summarizer.max_retries
    faults,           \* what fails in the environment
    chunker_api,      \* the kind of object passed as `chunker`
    mode,             \* the mode of the current run
    runNo,            \* how many runs were started
    idx,              \* position of the loop over files_to_process (1-based)
    rpc,              \* "off" | "idle" | "running" | "returned" | "raised"
    log,              \* history: the events of the current run, in order
    prev,             \* history: mode and end of the run before the current one
    outFiles,         \* the files under output_dir: <<path, text>>
    \* ---- get_sections_from_json ----
    gs_data,          \* the parsed JSON document
    gs_min_length,    \* the min_length argument
    gs_result,        \* the returned sections, and the rule that produced them
    gs_pc,            \* "off" | "call" | "returned"
    \* ---- TextChunker.chunk_document ----
    cd_sections,      \* the sections argument: (section_name, section_content) pairs
    cd_i,             \* local: index of the loop over the sections (0-based)
    all_chunks,       \* local: the chunks collected so far
    cd_pc,            \* "off" | "loop" | "returned"
    \* ---- run_summarization: dynamic chunking of a large news article ----
    total_chars,      \* len(text_to_summarize)
    plan,             \* the locals computed by lines 126-161
    dc_pc,            \* "off" | "estimate" | "planned"
    \* ---- run_summarization: the output paths of the artifacts ----
    op_files,         \* files_to_process, with the names the paths are built from
    op_mode,          \* mode
    op_idx,           \* position of the loop over files_to_process (1-based)
    op_writes,        \* history: the paths handed to the OutputWriter, in order
    op_pc,            \* "off" | "running" | "returned" | "raised"
    \* ---- run_summarization: file discovery ----
    input_dir,        \* the input_dir argument (a path)
    tree,             \* the directories on disk that hold files
    files_to_process, \* the discovered files, each with is_news_article
    fd_pc,            \* "off" | "start" | "loop" | "returned"
    \* ---- LLMSummarizer.summarize: the retry loop ----
    rl_max_retries,   \* self.max_retries
    rl_llm,           \* what chain.run does at each attempt: "raise" or the response
    rl_retries,       \* retries
    rl_summary_text,  \* summary_text, then the returned value
    rl_trace,         \* history: the LLM calls and the sleeps, in order
    rl_pc             \* "off" | "loop" | "sleep" | "break" | "returned"

chunkVars == <<text, max_chunk_size, overlap, start, chunk_index, chunks, cpc, tailEmitted>>
cacheVars == <<cm_enabled_arg, cm_enabled, cacheDirExists, cacheFiles, dirCreated, written,
               marked, lastCall>>

orchVars == <<files, prompts, max_retries, faults, chunker_api, mode, runNo, idx, rpc, log,
              prev, outFiles>>

secVars == <<gs_data, gs_min_length, gs_result, gs_pc>>

docVars == <<cd_sections, cd_i, all_chunks, cd_pc>>

\* the variables of the functions that are modelled on their own
sizeVars == <<total_chars, plan, dc_pc>>

pathVars == <<op_files, op_mode, op_idx, op_writes, op_pc>>

walkVars == <<input_dir, tree, files_to_process, fd_pc>>

retryVars == <<rl_max_retries, rl_llm, rl_retries, rl_summary_text, rl_trace, rl_pc>>

funVars == <<secVars, docVars, sizeVars, pathVars, walkVars, retryVars>>

vars == <<chunkVars, cacheVars, orchVars, funVars>>

(***************************************************************************)
(* Bounds of the model and constants of the program's tests.               *)
(***************************************************************************)
MaxTextLen == 5
MaxChunkSize == 4
MaxOverlap == 3
\* a run of chunk_text is cut after this many chunks (only the runs that
\* never terminate reach it: a terminating run emits at most MaxTextLen + 1)
MaxChunks == MaxTextLen + 2
\* max_retries ranges over 0..MaxRetries
MaxRetries == 1
\* in the retry loop taken alone, max_retries ranges over 0..MaxLoopRetries
MaxLoopRetries == 3
\* the `content` strings have at most MaxContentLen characters
MaxContentLen == 3
\* min_length ranges over 0..MaxMinLength
MaxMinLength == 3
\* the news texts have 0, 12345, 2 * 12345, ... MaxLenSteps * 12345 characters
MaxLenSteps == 200
\* the runs of one behaviour: a first run and a re-run
Runs == {0, 1}

\* test_chunk_text_overlap: "a" * 150 with TextChunker(100, 20)
TestTextLen == 150
TestChunkSize == 100
TestOverlap == 20

\* test_get_sections_min_length: "Too short." with min_length 50 and 5
TestMinLengthHigh == 50
TestMinLengthLow == 5

\* get_sections_from_json: the default of min_length
DefaultMinLength == 50

\* run_summarization, dynamic chunking (orchestrator.py lines 130-161) and
\* estimate_tokens (char_per_token = 3.5 = CharPerTokenNum / CharPerTokenDen)
ContentTokenLimit == 190000
SafeTokensPerChunk == 50000
MinNumChunks == 2
MinCharChunkForSplitter == 20000
MinChunkOverlap == 1000
OverlapDivisor == 10
CharPerTokenNum == 7
CharPerTokenDen == 2

Alphabet == {"a", "b"}
SectionName == "TestSection1"

Min(a, b) == IF a <= b THEN a ELSE b
Max(a, b) == IF a >= b THEN a ELSE b

\* all sequences over S of length at most n
SeqUpTo(S, n) == UNION {[1..k -> S] : k \in 0..n}

(***************************************************************************)
(* Python string operations on sequences of characters.                    *)
(***************************************************************************)
\* s[a:b] for 0 <= a, 0 <= b
Slice(s, a, b) ==
    LET hi == Min(b, Len(s))
    IN  IF a >= hi THEN <<>> ELSE SubSeq(s, a + 1, hi)

\* s[a:]
SliceFrom(s, a) == Slice(s, a, Len(s))

\* s.endswith(suf)
EndsWith(s, suf) ==
    /\ Len(suf) <= Len(s)
    /\ SliceFrom(s, Len(s) - Len(suf)) = suf

\* s[-n:] for n > 0
LastN(s, n) == SliceFrom(s, Max(0, Len(s) - n))

(***************************************************************************)
(* CacheManager (src/cache.py).  A hash is modelled by the value hashed    *)
(* (SHA-256 is taken to be injective); the cache directory is the set of   *)
(* hashes that have a .cache file.                                         *)
(***************************************************************************)
Keys == {"k1", "k2", "k3"}

NoCall == [op |-> "none", key |-> "none", result |-> FALSE]

\* __init__ (lines 12-21): `existed` is os.path.exists(cache_dir) before the
\* call, `mkdirOk` is whether os.makedirs succeeds
CacheManagerInit(enabledArg, existed, mkdirOk) ==
    LET tries == enabledArg /\ ~existed
    IN  [enabled |-> IF tries /\ ~mkdirOk THEN FALSE ELSE enabledArg,
         created |-> tries /\ mkdirOk]

\* mutant of IsCached: the enabled flag is not consulted
IsCachedIgnoresEnabled(en, cf, k) == k \in cf

\* is_cached (lines 27-37)
IsCached(en, cf, k) == IF ~en THEN FALSE ELSE k \in cf

\* mark_cached (lines 39-55): the files afterwards; `writeOk` is whether
\* open(cache_file_path, 'w') succeeds (an IOError is caught and logged)
MarkCached(en, cf, k, writeOk) ==
    IF ~en THEN cf
    ELSE IF writeOk THEN cf \cup {k} ELSE cf

\* the cache is not in use (the other specifications)
CacheOff ==
    /\ cm_enabled_arg = FALSE
    /\ cm_enabled = FALSE
    /\ cacheDirExists = FALSE
    /\ cacheFiles = {}
    /\ dirCreated = FALSE
    /\ written = {}
    /\ marked = {}
    /\ lastCall = NoCall

\* the state after CacheManager(cache_dir, enabled): the directory may exist
\* already and hold the entries that earlier managers marked
CacheInit ==
    /\ \E enabledArg \in BOOLEAN, existed \in BOOLEAN, mkdirOk \in BOOLEAN :
          \E pre \in (IF existed THEN SUBSET Keys ELSE {{}}) :
             LET cm == CacheManagerInit(enabledArg, existed, mkdirOk)
             IN  /\ cm_enabled_arg = enabledArg
                 /\ cm_enabled = cm.enabled
                 /\ dirCreated = cm.created
                 /\ cacheDirExists = (existed \/ cm.created)
                 /\ cacheFiles = pre
                 /\ marked = pre
    /\ written = {}
    /\ lastCall = NoCall

CacheIsCached(k) ==
    /\ lastCall' = [op |-> "is_cached", key |-> k, result |-> IsCached(cm_enabled, cacheFiles, k)]
    /\ UNCHANGED <<cm_enabled_arg, cm_enabled, cacheDirExists, cacheFiles, dirCreated,
                   written, marked>>

CacheMarkCached(k, writeOk) ==
    /\ cacheFiles' = MarkCached(cm_enabled, cacheFiles, k, writeOk)
    /\ written' = written \cup (cacheFiles' \ cacheFiles)
    /\ marked' = marked \cup {k}
    /\ lastCall' = [op |-> "mark_cached", key |-> k, result |-> FALSE]
    /\ UNCHANGED <<cm_enabled_arg, cm_enabled, cacheDirExists, dirCreated>>

CacheNext ==
    \/ \E k \in Keys : CacheIsCached(k) /\ UNCHANGED <<chunkVars, orchVars, funVars>>
    \/ \E k \in Keys, writeOk \in BOOLEAN : CacheMarkCached(k, writeOk) /\ UNCHANGED <<chunkVars, orchVars, funVars>>

(***************************************************************************)
(* TextChunker.chunk_text, one iteration of the while loop at a time.      *)
(***************************************************************************)
Chunk(content, section_name, index) ==
    [content |-> content, section_name |-> section_name, chunk_index |-> index]

\* mutant of NextStart: the window advances by the whole window width
NextStartNoOverlap(s, m, o) == s + m

\* mutant of NextStart: the step is one too long
NextStartOffByOne(s, m, o) == IF m - o <= 0 THEN s + m ELSE s + (m - o) + 1

\* lines 228-231: the next window start
NextStart(s, m, o) == IF m - o <= 0 THEN s + m ELSE s + (m - o)

\* lines 234: the tail test, evaluated with the new start
TailCond(t, s, o) == Len(t) - s < o /\ s < Len(t)

\* mutant of TailChunks: the tail chunk reuses the index of the chunk before it
TailChunksStaleIndex(t, s, o, cs, sn, ci) ==
    LET cur == SliceFrom(t, s)
    IN  IF EndsWith(cs[Len(cs)].content, Slice(cur, 0, o))
        THEN IF Len(cur) > o
             THEN Append(cs, Chunk(SliceFrom(t, s + o), sn, ci - 1))
             ELSE cs
        ELSE IF Len(cur) > 0
             THEN Append(cs, Chunk(cur, sn, ci - 1))
             ELSE cs

\* lines 235-240: the chunk list after the tail branch
TailChunks(t, s, o, cs, sn, ci) ==
    LET cur == SliceFrom(t, s)
    IN  IF EndsWith(cs[Len(cs)].content, Slice(cur, 0, o))
        THEN IF Len(cur) > o
             THEN Append(cs, Chunk(SliceFrom(t, s + o), sn, ci))
             ELSE cs
        ELSE IF Len(cur) > 0
             THEN Append(cs, Chunk(cur, sn, ci))
             ELSE cs

\* lines 208-214: the empty text returns [], otherwise the loop is entered
ChunkTextEnter ==
    /\ cpc = "entry"
    /\ cpc' = IF text = <<>> THEN "returned" ELSE "loop"
    /\ UNCHANGED <<text, max_chunk_size, overlap, start, chunk_index, chunks, tailEmitted>>

\* lines 216-241: one iteration of the while loop (the tail branch included)
ChunkTextIter ==
    /\ cpc = "loop"
    /\ start < Len(text)
    /\ Len(chunks) < MaxChunks
    /\ LET end == start + max_chunk_size
           cs1 == Append(chunks, Chunk(Slice(text, start, end), SectionName, chunk_index))
           ci1 == chunk_index + 1
           s1  == NextStart(start, max_chunk_size, overlap)
       IN  /\ start' = s1
           /\ chunk_index' = ci1
           /\ IF TailCond(text, s1, overlap)
              THEN LET cs2 == TailChunks(text, s1, overlap, cs1, SectionName, ci1)
                   IN  /\ chunks' = cs2
                       /\ tailEmitted' = (Len(cs2) > Len(cs1))
                       /\ cpc' = "returned"      \* break, then line 251
              ELSE /\ chunks' = cs1
                   /\ tailEmitted' = tailEmitted
                   /\ cpc' = "loop"
    /\ UNCHANGED <<text, max_chunk_size, overlap>>

\* line 216 false, then lines 245-251: return chunks
ChunkTextReturn ==
    /\ cpc = "loop"
    /\ start >= Len(text)
    /\ cpc' = "returned"
    /\ UNCHANGED <<text, max_chunk_size, overlap, start, chunk_index, chunks, tailEmitted>>

TestText == [i \in 1..TestTextLen |-> "a"]

ChunkInputs ==
    {<<t, m, o>> : t \in SeqUpTo(Alphabet, MaxTextLen), m \in 0..MaxChunkSize, o \in 0..MaxOverlap}
        \cup {<<TestText, TestChunkSize, TestOverlap>>}

\* the chunker is not running (the other specifications)
ChunkOff ==
    /\ text = <<>>
    /\ max_chunk_size = 0
    /\ overlap = 0
    /\ start = 0
    /\ chunk_index = 0
    /\ chunks = <<>>
    /\ cpc = "off"
    /\ tailEmitted = FALSE

ChunkInit ==
    /\ \E inp \in ChunkInputs :
          /\ text = inp[1]
          /\ max_chunk_size = inp[2]
          /\ overlap = inp[3]
    /\ start = 0
    /\ chunk_index = 0
    /\ chunks = <<>>
    /\ cpc = "entry"
    /\ tailEmitted = FALSE

ChunkNext ==
    \/ ChunkTextEnter /\ UNCHANGED <<cacheVars, orchVars, funVars>>
    \/ ChunkTextIter /\ UNCHANGED <<cacheVars, orchVars, funVars>>
    \/ ChunkTextReturn /\ UNCHANGED <<cacheVars, orchVars, funVars>>

(***************************************************************************)
(* LLMSummarizer (src/summarization.py).                                   *)
(***************************************************************************)
FilingTypes == {"news", "10-K", "default"}
PromptModes == {"file", "node", "master", "cross"}

\* self.prompts after _load_prompt_set: for each (filing type, mode) the
\* template is "loaded", "none" (listed, its file could not be read) or "absent"
PromptsFull ==
    [p \in FilingTypes \X PromptModes |-> IF p[1] = "default" THEN "loaded" ELSE "absent"]

\* the prompt set of tests/test_summarization.py (lines 27-40): no master template
PromptsTest ==
    [p \in FilingTypes \X PromptModes |->
        IF p \in {<<"default", "file">>, <<"default", "node">>, <<"default", "cross">>,
                  <<"news", "file">>, <<"news", "node">>}
        THEN "loaded"
        ELSE IF p = <<"10-K", "file">> THEN "none" ELSE "absent"]

\* the prompt-set file was not found (lines 72-74): {}
PromptsEmpty == [p \in FilingTypes \X PromptModes |-> "absent"]

\* the prompt set of test_missing_template_file_in_config (lines 123-141): the
\* only entry names a template file that does not exist
PromptsBad ==
    [p \in FilingTypes \X PromptModes |-> IF p = <<"default", "file">> THEN "none" ELSE "absent"]

PromptSets == {PromptsFull, PromptsTest, PromptsEmpty, PromptsBad}

\* mutant of GetPromptTemplate: an entry whose file could not be loaded is not
\* replaced by the default
GetPromptTemplateNoFallback(ps, m, ft) ==
    IF m \notin PromptModes THEN "ValueError"
    ELSE IF ps[<<ft, m>>] = "loaded" THEN "specific"
    ELSE IF ps[<<ft, m>>] = "none" THEN "ValueError"
    ELSE IF ps[<<"default", m>>] = "loaded" THEN "default"
    ELSE "ValueError"

\* get_prompt_template (lines 82-98): "specific", "default" or "ValueError"
GetPromptTemplate(ps, m, ft) ==
    IF m \notin PromptModes THEN "ValueError"
    ELSE IF ps[<<ft, m>>] = "loaded" THEN "specific"
    ELSE IF ps[<<"default", m>>] = "loaded" THEN "default"
    ELSE "ValueError"

SummaryText == "SUMMARY"
ErrorText == "Error: Failed to generate summary after attempts"
\* s.startswith("Error:")
IsErrorText(s) == s = ErrorText

\* chain.run at attempt number a (1-based) of a call whose LLM first succeeds at
\* attempt fsucc (line 154)
LLMSucceeds(a, fsucc) == a >= fsucc

\* mutant of RetriesExhausted: gives up one attempt early
RetriesExhaustedEarly(retries, mr) == retries >= mr

\* line 162: retries > self.max_retries, after retries += 1
RetriesExhausted(retries, mr) == retries > mr

\* lines 127-167: the retry loop from the state (retries, attempts made)
RECURSIVE RetryLoop(_, _, _, _)
RetryLoop(retries, attempts, mr, fsucc) ==
    IF ~(retries <= mr)
    THEN [raised |-> FALSE, text |-> "", attempts |-> attempts]
    ELSE IF LLMSucceeds(attempts + 1, fsucc)
         THEN [raised |-> FALSE, text |-> SummaryText, attempts |-> attempts + 1]
         ELSE IF RetriesExhausted(retries + 1, mr)
              THEN [raised |-> FALSE, text |-> ErrorText, attempts |-> attempts + 1]
              ELSE RetryLoop(retries + 1, attempts + 1, mr, fsucc)

\* summarize (lines 100-167): get_prompt_template raises ValueError when no
\* template is found, before any LLM call
Summarize(ps, m, ft, mr, fsucc) ==
    LET t == GetPromptTemplate(ps, m, ft)
        r == RetryLoop(0, 0, mr, fsucc)
    IN  IF t = "ValueError"
        THEN [raised |-> TRUE, text |-> "", attempts |-> 0, template |-> t]
        ELSE [raised |-> r.raised, text |-> r.text, attempts |-> r.attempts, template |-> t]

(***************************************************************************)
(* run_summarization (src/orchestrator.py): the input documents.           *)
(***************************************************************************)
Doc(news, load, shape, content, sections, cks) ==
    [news |-> news, load |-> load, shape |-> shape, content |-> content,
     sections |-> sections, chunks |-> cks]

\* news: a path with a /news/ segment (line 58); load: json.load succeeds, or
\* raises JSONDecodeError, or the file cannot be read (lines 60-68); shape: the
\* JSON value; content: the `content` field of a news object; sections: what
\* get_sections_from_json returns for a filing; chunks: the strings a splitter
\* returns for an oversized content
Docs ==
    { Doc(TRUE,  "ok", "dict", "text", <<>>, <<>>),
      Doc(TRUE,  "ok", "dict", "big", <<>>, <<"text", "text">>),
      Doc(TRUE,  "ok", "dict", "blank", <<>>, <<>>),
      Doc(TRUE,  "ok", "dict", "nonstring", <<>>, <<>>),
      Doc(TRUE,  "ok", "list", "none", <<>>, <<>>),
      Doc(FALSE, "ok", "dict", "none", <<"text", "text">>, <<>>),
      Doc(FALSE, "ok", "dict", "none", <<"text", "blank", "text">>, <<>>),
      Doc(FALSE, "ok", "dict", "none", <<>>, <<>>),
      Doc(FALSE, "ok", "list", "none", <<"text">>, <<>>),
      Doc(FALSE, "ok", "str", "blank", <<>>, <<>>),      \* the file holds a blank JSON string
      Doc(FALSE, "bad_json", "none", "none", <<>>, <<>>),
      Doc(FALSE, "unreadable", "none", "none", <<>>, <<>>) }

\* the files that follow another one in the input trees considered
SecondDocs ==
    { Doc(TRUE,  "ok", "dict", "text", <<>>, <<>>),
      Doc(FALSE, "ok", "dict", "none", <<"text", "text">>, <<>>) }

\* a file with the same text and the same context as d (an article with the same
\* content and title; a filing with the same JSON value and base file name, in
\* another directory)
CopyOf(d) == [d EXCEPT !.content = "copy"]

\* files_to_process: no file, one file, any file followed by a well-formed one,
\* or a well-formed file followed by a copy of it
FileLists ==
    {<<>>} \cup {<<d>> : d \in Docs} \cup {<<d, e>> : d \in Docs, e \in SecondDocs}
        \cup {<<d, CopyOf(d)>> : d \in SecondDocs}

\* line 94-113: effective_filing_type
FilingType(d) == IF d.news THEN "news" ELSE "10-K"

Modes == {"file", "node", "master", "cross", "sub_folder_content"}

\* the chunker argument: the chunker module (summarizer.py line 45), which has no
\* chunk_text, or an object whose chunk_text(text, chunk_size, chunk_overlap)
\* returns strings, as lines 165-181 use it
ChunkerApis == {"module", "splitter"}

\* what fails in the environment: cache file writes, output file writes
FaultSets == {{}, {"cache_write"}, {"out_write"}}

\* the settings of a run: every retry count, chunker and cache switch with the
\* full prompt set and no fault; the other prompt sets, and each fault, with
\* the defaults of summarizer.py
Configs ==
    [prompts : {PromptsFull}, max_retries : 0..MaxRetries, faults : {{}},
     chunker_api : ChunkerApis, enabled : BOOLEAN]
    \cup [prompts : PromptSets, max_retries : {0}, faults : FaultSets,
          chunker_api : {"module"}, enabled : {TRUE}]

(***************************************************************************)
(* The events of a run and the files on disk.                              *)
(***************************************************************************)
Ev(ev, i, unit, key, attempts, txt) ==
    [ev |-> ev, file |-> i, unit |-> unit, key |-> key, attempts |-> attempts, text |-> txt,
     llm |-> 0, template |-> "none"]

NoKey == <<>>

\* an artifact path: <output_dir>/<level>-level/<dir>/<base>_<unit>_<ext>
Path(level, i, unit, ext) == <<level, i, unit, ext>>

Exists(disk, p) == \E f \in disk : f[1] = p
ReadFile(disk, p) == (CHOOSE f \in disk : f[1] = p)[2]
WriteFile(disk, p, txt) == {f \in disk : f[1] # p} \cup {<<p, txt>>}

\* the state threaded through the processing of one file
St(lg, cache, marks, wr, disk, raised) ==
    [log |-> lg, cache |-> cache, marks |-> marks, wr |-> wr, out |-> disk, raised |-> raised]

Raise(st) == [st EXCEPT !.raised = TRUE]
Emit(st, e) == [st EXCEPT !.log = Append(@, e)]

\* a call of summarizer.summarize with result r; llm: the attempt at which the
\* LLM would first answer
SummarizeEv(i, unit, r, fsucc) ==
    [Ev("summarize", i, unit, NoKey, r.attempts, IF r.raised THEN "ValueError" ELSE r.text)
        EXCEPT !.llm = fsucc, !.template = r.template]

\* line 197: the separator between chunk summaries (backslashes and the letter n,
\* as the source writes it); line 344: the separator between node summaries
ChunkSeparator == "\\n\\n---\\n\\n"
NodeSeparator == "\n\n---\n\n"

\* sep.join(ss)
RECURSIVE Join(_, _)
Join(ss, sep) ==
    IF ss = <<>> THEN ""
    ELSE IF Len(ss) = 1 THEN ss[1]
    ELSE ss[1] \o sep \o Join(Tail(ss), sep)

\* line 194: the slot of a chunk whose summary is an error string
ChunkErrorMarker(k, summary) ==
    "[Error summarizing chunk " \o ToString(k) \o ": " \o summary \o "]"

\* the keys hashed by hash_content: (mode, file, section number, text); the
\* hash is taken to be injective
Key(level, i, n, txt) == <<level, i, n, txt>>

\* write_summary (writer.py lines 13-23): a failure is caught and logged
WriteSummary(st, i, unit, p, txt) ==
    [Emit(st, Ev("write_summary", i, unit, p, 0, txt))
        EXCEPT !.out = IF "out_write" \in faults THEN @ ELSE WriteFile(@, p, txt)]

\* write_metadata (writer.py lines 25-37)
WriteMetadata(st, i, unit, p) ==
    [Emit(st, Ev("write_metadata", i, unit, p, 0, "meta"))
        EXCEPT !.out = IF "out_write" \in faults THEN @ ELSE WriteFile(@, p, "meta")]

\* the cache check, the summarizer call, the mark and the two writes of one unit:
\* file mode lines 217-253, node mode lines 270-303, master mode lines 348-386,
\* cross mode lines 403-424.  getRaises: data.get(...) between the cache check
\* and the summarizer call raises (lines 279, 357: data is not a mapping)
Unit(st, i, unit, level, key, ft, fsucc, getRaises) ==
    LET hit == IsCached(cm_enabled, st.cache, key)
        st1 == Emit(st, Ev("is_cached", i, unit, key, 0, IF hit THEN "hit" ELSE "miss"))
    IN  IF hit THEN st1
        ELSE IF getRaises THEN Raise(st1)
        ELSE LET r == Summarize(prompts, level, ft, max_retries, fsucc)
                 st2 == Emit(st1, SummarizeEv(i, unit, r, fsucc))
             IN  IF r.raised THEN Raise(st2)
                 ELSE LET cache2 == MarkCached(cm_enabled, st2.cache, key,
                                               "cache_write" \notin faults)
                          st3 == [Emit(st2, Ev("mark_cached", i, unit, key, 0, ""))
                                     EXCEPT !.cache = cache2,
                                            !.marks = @ \cup {key},
                                            !.wr = @ \cup (cache2 \ st2.cache)]
                          st4 == WriteSummary(st3, i, unit, Path(level, i, unit, "md"), r.text)
                      IN  WriteMetadata(st4, i, unit, Path(level, i, unit, "json"))

\* lines 121-126, 204-213: what file mode finds as text_to_summarize
FileTextKind(d) ==
    IF d.news
    THEN IF d.shape # "dict" THEN "raise"              \* data.get on a list (line 122)
         ELSE IF d.content = "nonstring" THEN "raise"  \* len() / .strip() (lines 41, 213)
         ELSE IF d.content = "big" THEN "big"
         ELSE IF d.content \in {"text", "copy"} THEN "text"
         ELSE "blank"
    ELSE IF d.shape # "dict" THEN "raise"              \* data.get on a list (line 205)
         ELSE "text"

\* lines 176-194: the summaries of the chunks from chunk k on
RECURSIVE ChunkLoop(_, _, _, _, _, _)
ChunkLoop(st, i, d, k, sums, fs) ==
    IF k > Len(d.chunks) \/ st.raised THEN [st |-> st, sums |-> sums]
    ELSE IF d.chunks[k] = "blank" THEN ChunkLoop(st, i, d, k + 1, sums, fs)
    ELSE LET r == Summarize(prompts, "file", FilingType(d), max_retries, fs[k])
             st1 == Emit(st, SummarizeEv(i, <<"chunk", k>>, r, fs[k]))
         IN  IF r.raised THEN [st |-> Raise(st1), sums |-> sums]
             ELSE ChunkLoop(st1, i, d, k + 1,
                            Append(sums, IF IsErrorText(r.text)
                                         THEN ChunkErrorMarker(k, r.text) ELSE r.text),
                            fs)

\* line 217: the key is taken over the text and summarizer_kwargs (the title of
\* an article; the base file name, type, title and date of a filing), not over
\* the path: the key of a copy is the key of the file it copies
FileKeyOwner(i, d) == IF d.content = "copy" THEN i - 1 ELSE i

\* lines 115-254
FileMode(st, i, d, fs) ==
    LET tk == FileTextKind(d)
        ft == FilingType(d)
    IN  CASE tk = "raise" -> Raise(st)
          [] tk = "blank" -> Emit(st, Ev("warning", i, <<"file", 0>>, NoKey, 0, "no content"))
          [] tk = "text" ->
                Unit(st, i, <<"file", 0>>, "file",
                     Key("file", FileKeyOwner(i, d), 0, <<"content">>), ft,
                     fs[1], FALSE)
          [] tk = "big" ->
                LET st0 == Emit(st, Ev("warning", i, <<"file", 0>>, NoKey, 0, "dynamic chunking"))
                IN  IF chunker_api = "module" THEN Raise(st0)   \* line 165: no chunk_text
                    ELSE LET c == ChunkLoop(st0, i, d, 1, <<>>, fs)
                             txt == IF c.sums # <<>> THEN <<Join(c.sums, ChunkSeparator)>>
                                    ELSE <<"Error: Failed to generate summary from chunks">>
                         IN  IF c.st.raised THEN c.st
                             ELSE Unit(c.st, i, <<"file", 0>>, "file", Key("file", i, 0, txt),
                                       ft, fs[Len(d.chunks) + 1], FALSE)

\* lines 262-304: the sections from number n on
RECURSIVE SectionLoop(_, _, _, _, _)
SectionLoop(st, i, d, n, fs) ==
    IF n > Len(d.sections) \/ st.raised THEN st
    ELSE IF d.sections[n] = "blank" THEN SectionLoop(st, i, d, n + 1, fs)
    ELSE SectionLoop(Unit(st, i, <<"section", n>>, "node", Key("node", i, n, <<"text">>),
                          FilingType(d), fs[n], d.shape # "dict"),
                     i, d, n + 1, fs)

\* lines 256-304; a news file reaches line 426, whose test is false for "node"
NodeMode(st, i, d, fs) ==
    IF d.news THEN st
    ELSE IF d.sections = <<>>
         THEN Emit(st, Ev("warning", i, <<"node", 0>>, NoKey, 0, "no sections"))
         ELSE SectionLoop(st, i, d, 1, fs)

\* lines 323-338: the node-level summaries section_n, section_n+1, ... on disk
RECURSIVE NodeSummaries(_, _, _)
NodeSummaries(disk, i, n) ==
    IF Exists(disk, Path("node", i, <<"section", n>>, "md"))
    THEN <<ReadFile(disk, Path("node", i, <<"section", n>>, "md"))>>
            \o NodeSummaries(disk, i, n + 1)
    ELSE <<>>

\* mutant of MasterMode: the summary is generated even when no node-level
\* summary was found
MasterModeNoSkip(st, i, d, fs) ==
    IF d.news THEN st
    ELSE Unit(st, i, <<"master", 0>>, "master",
              Key("master", i, 0, <<Join(NodeSummaries(st.out, i, 1), NodeSeparator)>>),
              FilingType(d), fs[1], d.shape # "dict")

\* lines 306-387
MasterMode(st, i, d, fs) ==
    IF d.news THEN st
    ELSE LET found == NodeSummaries(st.out, i, 1)
         IN  IF found = <<>>
             THEN Emit(st, Ev("warning", i, <<"master", 0>>, NoKey, 0, "no node summaries"))
             ELSE Unit(st, i, <<"master", 0>>, "master",
                       Key("master", i, 0, <<Join(found, NodeSeparator)>>),
                       FilingType(d), fs[1], d.shape # "dict")

\* line 396: the theme (no caller passes args)
Theme == "general_cross_summary"

\* lines 400-401: get_full_text(data) is blank (a blank string; json.dumps of a
\* mapping or a list never is)
BlankFullText(d) == d.shape = "str" /\ d.content = "blank"

\* lines 389-425
CrossMode(st, i, d, fs) ==
    LET st0 == Emit(st, Ev("warning", i, <<"cross", 0>>, NoKey, 0, "cross on a single file"))
    IN  IF BlankFullText(d) THEN st0
        ELSE Unit(st0, i, <<"cross", 0>>, "cross", Key("cross", i, 0, <<Theme, "content">>),
                  FilingType(d), fs[1], FALSE)

\* lines 426-427
OtherMode(st, i, d) ==
    Emit(st, Ev("warning", i, <<"none", 0>>, NoKey, 0, "mode not applicable"))

\* lines 115, 256, 306, 389, 426: the branch taken for the mode
ModeEffect(st, m, i, d, fs) ==
    CASE m = "file" -> FileMode(st, i, d, fs)
      [] m = "node" -> NodeMode(st, i, d, fs)
      [] m = "master" -> MasterMode(st, i, d, fs)
      [] m = "cross" -> CrossMode(st, i, d, fs)
      [] OTHER -> OtherMode(st, i, d)

\* the attempt at which the LLM first answers a call: at once, at the last
\* attempt, or not within the attempts made
FirstSuccessChoices == {1, max_retries + 1, max_retries + 2}

\* an upper bound of the summarizer calls file d can cause in mode m
NumCalls(m, d) ==
    CASE m = "file" -> IF d.content = "big" THEN Len(d.chunks) + 1 ELSE 1
      [] m = "node" -> Len(d.sections)
      [] m \in {"master", "cross"} -> 1
      [] OTHER -> 0

\* the last cache call among the events es, or the call before them
RECURSIVE LastCacheCall(_, _, _)
LastCacheCall(es, k, before) ==
    IF k = 0 THEN before
    ELSE IF es[k].ev = "is_cached"
         THEN [op |-> "is_cached", key |-> es[k].key, result |-> es[k].text = "hit"]
         ELSE IF es[k].ev = "mark_cached"
              THEN [op |-> "mark_cached", key |-> es[k].key, result |-> FALSE]
              ELSE LastCacheCall(es, k - 1, before)

\* mutant of Loads: every file is taken as loaded
LoadsAlways(d) == TRUE

\* lines 60-68: open and json.load succeed
Loads(d) == d.load = "ok"

\* summarizer.py main (lines 30-48) and run_summarization lines 17-54: a new
\* process builds its CacheManager and starts the loop over the files
StartRun(m) ==
    /\ rpc \in {"idle", "returned", "raised"}
    /\ runNo \in Runs
    \* the re-runs considered: the same mode again, or master after node
    /\ runNo = 0 \/ m = mode \/ (mode = "node" /\ m = "master")
    /\ runNo' = runNo + 1
    /\ prev' = [mode |-> mode, ended |-> rpc, enabled |-> cm_enabled]
    /\ mode' = m
    /\ LET cm == CacheManagerInit(cm_enabled_arg, cacheDirExists, TRUE)
       IN  /\ cm_enabled' = cm.enabled
           /\ dirCreated' = cm.created
           /\ cacheDirExists' = (cacheDirExists \/ cm.created)
    /\ idx' = 1
    /\ log' = <<>>
    /\ rpc' = IF files = <<>> THEN "returned" ELSE "running"    \* lines 50-52
    /\ lastCall' = NoCall
    /\ UNCHANGED <<files, prompts, max_retries, faults, chunker_api, cm_enabled_arg,
                   cacheFiles, written, marked, outFiles>>

\* lines 56-68: the file cannot be read or is not JSON: logged, next file
SkipUnreadable ==
    /\ rpc = "running"
    /\ idx <= Len(files)
    /\ ~Loads(files[idx])
    /\ log' = Append(log, Ev("error", idx, <<"load", 0>>, NoKey, 0, files[idx].load))
    /\ idx' = idx + 1
    /\ UNCHANGED <<files, prompts, max_retries, faults, chunker_api, mode, runNo, rpc, prev,
                   outFiles>>
    /\ UNCHANGED cacheVars

\* lines 56-427: one iteration of the loop over files_to_process
ProcessFile ==
    /\ rpc = "running"
    /\ idx <= Len(files)
    /\ Loads(files[idx])
    /\ \E fs \in [1..NumCalls(mode, files[idx]) -> FirstSuccessChoices] :
          LET st == ModeEffect(St(log, cacheFiles, {}, {}, outFiles, FALSE), mode, idx,
                               files[idx], fs)
          IN  /\ log' = st.log
              /\ cacheFiles' = st.cache
              /\ marked' = marked \cup st.marks
              /\ written' = written \cup st.wr
              /\ outFiles' = st.out
              /\ lastCall' = LastCacheCall(st.log, Len(st.log), NoCall)
              /\ rpc' = IF st.raised THEN "raised" ELSE "running"
              /\ idx' = IF st.raised THEN idx ELSE idx + 1
    /\ UNCHANGED <<files, prompts, max_retries, faults, chunker_api, mode, runNo, prev,
                   cm_enabled_arg, cm_enabled, cacheDirExists, dirCreated>>

\* line 56 exhausted, line 429: run_summarization returns
FinishRun ==
    /\ rpc = "running"
    /\ idx > Len(files)
    /\ rpc' = "returned"
    /\ UNCHANGED <<files, prompts, max_retries, faults, chunker_api, mode, runNo, idx, log,
                   prev, outFiles>>
    /\ UNCHANGED cacheVars

OrchOff ==
    /\ files = <<>>
    /\ prompts = PromptsEmpty
    /\ max_retries = 0
    /\ faults = {}
    /\ chunker_api = "module"
    /\ mode = "none"
    /\ runNo = 0
    /\ idx = 0
    /\ rpc = "off"
    /\ log = <<>>
    /\ prev = [mode |-> "none", ended |-> "off", enabled |-> FALSE]
    /\ outFiles = {}

\* before the first run: an input tree, a prompt set, the command-line options,
\* and no cache directory or output yet
OrchInit ==
    /\ files \in FileLists
    /\ \E c \in Configs :
          /\ prompts = c.prompts
          /\ max_retries = c.max_retries
          /\ faults = c.faults
          /\ chunker_api = c.chunker_api
          /\ cm_enabled_arg = c.enabled
    /\ mode = "none"
    /\ runNo = 0
    /\ idx = 0
    /\ rpc = "idle"
    /\ log = <<>>
    /\ prev = [mode |-> "none", ended |-> "none", enabled |-> FALSE]
    /\ outFiles = {}
    /\ cm_enabled = FALSE
    /\ cacheDirExists = FALSE
    /\ cacheFiles = {}
    /\ dirCreated = FALSE
    /\ written = {}
    /\ marked = {}
    /\ lastCall = NoCall

OrchNext ==
    \/ \E m \in Modes : StartRun(m) /\ UNCHANGED <<chunkVars, funVars>>
    \/ SkipUnreadable /\ UNCHANGED <<chunkVars, funVars>>
    \/ ProcessFile /\ UNCHANGED <<chunkVars, funVars>>
    \/ FinishRun /\ UNCHANGED <<chunkVars, funVars>>

(***************************************************************************)
(* get_sections_from_json and strip_html (src/chunker.py).  Texts are      *)
(* sequences of characters, JSON values are tagged records.                *)
(***************************************************************************)
Absent == [t |-> "absent"]
Null == [t |-> "null"]
Num == [t |-> "num"]
Str(s) == [t |-> "str", s |-> s]
Map(m) == [t |-> "map", m |-> m]
StrList(l) == [t |-> "list", l |-> l]

IsStr(v) == v.t = "str"
Present(v) == v.t # "absent"

W_title == <<"t", "i", "t", "l", "e">>
W_content == <<"c", "o", "n", "t", "e", "n", "t">>
W_sections == <<"s", "e", "c", "t", "i", "o", "n", "s">>
W_body == <<"b", "o", "d", "y">>
W_null == <<"n", "u", "l", "l">>
W_None == <<"N", "o", "n", "e">>
W_seven == <<"7">>
W_document_content ==
    <<"d", "o", "c", "u", "m", "e", "n", "t", "_", "c", "o", "n", "t", "e", "n", "t">>
W_full_document_content == <<"f", "u", "l", "l", "_">> \o W_document_content
W_News_Article == <<"N", "e", "w", "s", " ", "A", "r", "t", "i", "c", "l", "e">>
W_placeholder ==
    <<"[", "C", "o", "n", "t", "e", "n", "t", " ", "n", "o", "t", " ", "a",
      "v", "a", "i", "l", "a", "b", "l", "e", " ", "o", "r", " ", "e", "m",
      "p", "t", "y", " ", "a", "f", "t", "e", "r", " ", "c", "l", "e", "a",
      "n", "i", "n", "g", "]">>

Whitespace == {" ", "\n"}

\* sep.join(ss) for texts
RECURSIVE JoinChars(_, _)
JoinChars(ss, sep) ==
    IF ss = <<>> THEN <<>>
    ELSE IF Len(ss) = 1 THEN ss[1]
    ELSE ss[1] \o sep \o JoinChars(Tail(ss), sep)

\* s.lstrip(), s.strip()
RECURSIVE LStrip(_)
LStrip(s) == IF s # <<>> /\ s[1] \in Whitespace THEN LStrip(Tail(s)) ELSE s
RECURSIVE RStrip(_)
RStrip(s) ==
    IF s # <<>> /\ s[Len(s)] \in Whitespace THEN RStrip(SubSeq(s, 1, Len(s) - 1)) ELSE s
Strip(s) == RStrip(LStrip(s))

\* the fields of a mapping document, in the order of the file
Fields(d) ==
    SelectSeq(<<<<W_title, d.title>>, <<W_content, d.content>>,
                <<W_sections, d.sections>>, <<W_body, d.body>>>>,
              LAMBDA f : Present(f[2]))

\* json.dumps(v) for the values of the model (no character needs an escape)
RECURSIVE Dumps(_)
DumpsPairs(ps) ==
    <<"{">> \o JoinChars([k \in 1..Len(ps) |->
                            <<"\"">> \o ps[k][1] \o <<"\"", ":", " ">> \o Dumps(ps[k][2])],
                         <<",", " ">>) \o <<"}">>
Dumps(v) ==
    CASE v.t = "str" -> <<"\"">> \o v.s \o <<"\"">>
      [] v.t = "num" -> W_seven
      [] v.t = "null" -> W_null
      [] v.t = "map" -> DumpsPairs(v.m)
      [] v.t = "list" -> <<"[">> \o JoinChars([k \in 1..Len(v.l) |-> Dumps(v.l[k])],
                                              <<",", " ">>) \o <<"]">>
      [] OTHER -> <<>>

\* str(v): Python's repr quotes strings inside containers with '
RECURSIVE Repr(_)
Repr(v) ==
    CASE v.t = "str" -> <<"'">> \o v.s \o <<"'">>
      [] v.t = "num" -> W_seven
      [] v.t = "null" -> W_None
      [] v.t = "map" ->
            <<"{">> \o JoinChars([k \in 1..Len(v.m) |->
                                    <<"'">> \o v.m[k][1] \o <<"'", ":", " ">> \o Repr(v.m[k][2])],
                                 <<",", " ">>) \o <<"}">>
      [] v.t = "list" -> <<"[">> \o JoinChars([k \in 1..Len(v.l) |-> Repr(v.l[k])],
                                              <<",", " ">>) \o <<"]">>
      [] OTHER -> <<>>
PyStr(v) == IF v.t = "str" THEN v.s ELSE Repr(v)

\* re.sub(r'<[^>]+>', '', s): the first '>' after a '<' closes the tag when at
\* least one character lies between them
FirstClose(s, p) ==
    IF \E q \in (p + 1)..Len(s) : s[q] = ">"
    THEN CHOOSE q \in (p + 1)..Len(s) : s[q] = ">" /\ \A r \in (p + 1)..(q - 1) : s[r] # ">"
    ELSE 0
RECURSIVE RemoveTags(_)
RemoveTags(s) ==
    IF s = <<>> THEN <<>>
    ELSE IF s[1] = "<" /\ FirstClose(s, 1) > 2
         THEN RemoveTags(SubSeq(s, FirstClose(s, 1) + 1, Len(s)))
         ELSE <<s[1]>> \o RemoveTags(Tail(s))

\* re.sub(r'\s+', ' ', s)
RECURSIVE CollapseSpaces(_)
CollapseSpaces(s) ==
    IF s = <<>> THEN <<>>
    ELSE IF s[1] \in Whitespace
         THEN <<" ">> \o CollapseSpaces(LStrip(s))
         ELSE <<s[1]>> \o CollapseSpaces(Tail(s))

\* strip_html (lines 12-45) on a string over the characters of the model (no
\* '=', '&', script or style element, line break or non-printable character):
\* tags removed, the line stripped, whitespace collapsed, ends stripped
StripHtml(s) ==
    IF s = <<>> THEN <<>>
    ELSE Strip(CollapseSpaces(Strip(RemoveTags(s))))

Section(name, content) == [name |-> name, content |-> content]

\* bool(v) for a title
Truthy(v) == ~(v.t \in {"absent", "null"}) /\ ~(v.t = "str" /\ v.s = <<>>)

\* lines 56-62: rule 1 applies
Rule1Applies(d) == d.shape = "dict" /\ IsStr(d.content)

\* data.get(key): the value, or None
Get(v) == IF Present(v) THEN v ELSE Null

\* data.get(key, default)
GetOr(v, default) == IF Present(v) THEN v ELSE Str(default)

\* mutant of Rule1: a content that is too short falls through to the later rules
Rule1FallsBack(d, min_length) ==
    IF Len(d.content.s) >= min_length
    THEN [returned |-> TRUE, sections |-> <<Section(Get(d.title), d.content.s)>>]
    ELSE [returned |-> FALSE, sections |-> <<>>]

\* lines 56-62: a root-level string `content`
Rule1(d, min_length) ==
    IF Len(d.content.s) >= min_length
    THEN [returned |-> TRUE, sections |-> <<Section(Get(d.title), d.content.s)>>]
    ELSE [returned |-> TRUE, sections |-> <<>>]

\* mutant of Rule2Entries: an entry exactly min_length long is dropped
RECURSIVE Rule2EntriesStrict(_, _, _)
Rule2EntriesStrict(m, k, min_length) ==
    IF k > Len(m) THEN <<>>
    ELSE LET name == m[k][1]
             v == m[k][2]
             joined == JoinChars([j \in 1..Len(SelectSeq(v.l, IsStr)) |->
                                     SelectSeq(v.l, IsStr)[j].s], <<"\n">>)
             here == IF v.t = "str" /\ Len(v.s) > min_length
                     THEN <<Section(Str(name), v.s)>>
                     ELSE IF v.t = "list" /\ Len(joined) > min_length
                          THEN <<Section(Str(name), joined)>>
                          ELSE <<>>
         IN  here \o Rule2EntriesStrict(m, k + 1, min_length)

\* lines 66-72: the sections of the entries from entry k on
RECURSIVE Rule2Entries(_, _, _)
Rule2Entries(m, k, min_length) ==
    IF k > Len(m) THEN <<>>
    ELSE LET name == m[k][1]
             v == m[k][2]
             joined == JoinChars([j \in 1..Len(SelectSeq(v.l, IsStr)) |->
                                     SelectSeq(v.l, IsStr)[j].s], <<"\n">>)
             here == IF v.t = "str" /\ Len(v.s) >= min_length
                     THEN <<Section(Str(name), v.s)>>
                     ELSE IF v.t = "list" /\ Len(joined) >= min_length
                          THEN <<Section(Str(name), joined)>>
                          ELSE <<>>
         IN  here \o Rule2Entries(m, k + 1, min_length)

\* lines 64-74: a `sections` mapping
Rule2(d, min_length) ==
    LET ss == Rule2Entries(d.sections.m, 1, min_length)
    IN  [returned |-> ss # <<>>, sections |-> ss]

Digit(i) == <<"0", "1", "2", "3", "4", "5", "6", "7", "8", "9">>[i + 1]

\* lines 79-91: the sections of the items of a list from item k on
RECURSIVE Rule3Items(_, _, _)
Rule3Items(items, k, min_length) ==
    IF k > Len(items) THEN <<>>
    ELSE LET item == items[k]
             title == GetOr(item.title, <<"i", "t", "e", "m", "_", Digit(k)>>)
             content_str == IF IsStr(item.content) THEN item.content.s
                            ELSE DumpsPairs(Fields(item))
             here == IF Len(content_str) >= min_length
                     THEN <<Section(title, content_str)>> ELSE <<>>
         IN  here \o Rule3Items(items, k + 1, min_length)

\* lines 76-93: the root is a list
Rule3(d, min_length) ==
    LET ss == Rule3Items(d.items, 1, min_length)
    IN  [returned |-> ss # <<>>, sections |-> ss]

\* lines 116-122: "key: value\n" for each field
RECURSIVE Combined(_)
Combined(fs) ==
    IF fs = <<>> THEN <<>>
    ELSE LET v == fs[1][2]
             txt == IF v.t = "str" THEN v.s
                    ELSE IF v.t \in {"list", "map"} THEN Dumps(v)
                    ELSE PyStr(v)
         IN  fs[1][1] \o <<":", " ">> \o txt \o <<"\n">> \o Combined(Tail(fs))

\* lines 95-134: flat mapping
Rule4(d, min_length) ==
    LET section_title == GetOr(d.title, W_document_content)
        temp == SelectSeq(Fields(d), LAMBDA f : f[1] # W_title)
        stripped == Strip(Combined(temp))
    IN  IF temp = <<>> /\ Present(d.title)
        THEN IF IsStr(d.title) /\ Len(d.title.s) >= min_length
             THEN [returned |-> TRUE, sections |-> <<Section(Null, d.title.s)>>]
             ELSE [returned |-> TRUE, sections |-> <<>>]
        ELSE IF stripped # <<>> /\ Len(stripped) >= min_length
             THEN [returned |-> TRUE, sections |-> <<Section(section_title, stripped)>>]
             ELSE [returned |-> FALSE, sections |-> <<>>]

\* lines 136-141: the whole document, stringified
Rule5(d, min_length) ==
    LET content_str == DumpsPairs(Fields(d))
    IN  IF Len(content_str) >= min_length
        THEN <<Section(GetOr(d.title, W_full_document_content), content_str)>>
        ELSE <<>>

\* lines 143-166: the news article structure; `sections` is what the rules
\* before it collected
NewsTail(d, sections) ==
    LET title == GetOr(d.title, W_News_Article)
        content == IF d.content.t = "str" THEN StripHtml(d.content.s)
                   ELSE IF d.content.t # "null" THEN StripHtml(PyStr(d.content))
                   ELSE <<>>
    IN  IF Truthy(title) /\ Strip(content) # <<>>
        THEN <<Section(Str(PyStr(title)), content)>>
        ELSE IF Truthy(title)
             THEN <<Section(Str(PyStr(title)), W_placeholder)>>
             ELSE sections

\* get_sections_from_json (lines 47-168): the sections and the rule that
\* produced the result
GetSectionsFromJson(d, min_length) ==
    IF Rule1Applies(d) /\ Rule1(d, min_length).returned
    THEN [rule |-> 1, sections |-> Rule1(d, min_length).sections]
    ELSE IF d.shape = "dict" /\ d.sections.t = "map" /\ Rule2(d, min_length).returned
    THEN [rule |-> 2, sections |-> Rule2(d, min_length).sections]
    ELSE IF d.shape = "list"
    THEN [rule |-> 3, sections |-> Rule3(d, min_length).sections]
    ELSE IF Rule4(d, min_length).returned
    THEN [rule |-> 4, sections |-> Rule4(d, min_length).sections]
    ELSE IF Present(d.content)
    THEN [rule |-> 6, sections |-> NewsTail(d, Rule5(d, min_length))]
    ELSE [rule |-> 5, sections |-> Rule5(d, min_length)]

\* the documents and minimum lengths get_sections_from_json is called with
ContentAlphabet == {"a", " ", "<", ">"}
ContentTexts == SeqUpTo(ContentAlphabet, MaxContentLen)
TitleValues == {Absent, Null, Str(<<>>), Str(<<"T">>)}
ContentValues == {Absent, Null, Num} \cup {Str(s) : s \in ContentTexts}
SectionsValues ==
    { Absent, Num, Map(<<>>),
      Map(<< <<<<"A">>, Str(<<"a", "a">>)>> >>),
      Map(<< <<<<"A">>, Str(<<"a">>)>>, <<<<"B">>, Str(<<"b", "b">>)>>,
             <<<<"C">>, Str(<<"c", "c", "c">>)>> >>),
      Map(<< <<<<"A">>, StrList(<<Str(<<"a">>), Num, Str(<<"b">>)>>)>>,
             <<<<"B">>, Num>> >>) }
BodyValues == {Absent, Str(<<"a", "a">>)}

MappingDoc(title, content, sections, body) ==
    [shape |-> "dict", title |-> title, content |-> content, sections |-> sections,
     body |-> body]

MappingDocs ==
    {MappingDoc(t, c, s, b) : t \in TitleValues, c \in ContentValues,
                              s \in SectionsValues, b \in BodyValues}

ListItems ==
    {MappingDoc(t, c, Absent, Absent) : t \in {Absent, Str(<<"T">>)},
                                        c \in {Absent, Num, Str(<<>>), Str(<<"a", "a">>)}}

ListDocs ==
    {[shape |-> "list", items |-> its] : its \in SeqUpTo(ListItems, 2)}

\* test_get_sections_min_length: the article with the content "Too short."
TestShortDoc ==
    MappingDoc(Str(<<"T">>), Str(<<"T", "o", "o", " ", "s", "h", "o", "r", "t", ".">>),
               Absent, Str(<<"a", "a">>))

SectionsInputs ==
    ((MappingDocs \cup ListDocs) \X ((0..MaxMinLength) \cup {DefaultMinLength}))
        \cup {<<TestShortDoc, TestMinLengthHigh>>, <<TestShortDoc, TestMinLengthLow>>}

\* get_sections_from_json is not in use (the other specifications)
SectionsOff ==
    /\ gs_data = [shape |-> "none"]
    /\ gs_min_length = 0
    /\ gs_result = [rule |-> 0, sections |-> <<>>]
    /\ gs_pc = "off"

\* a call get_sections_from_json(data, min_length=...)
SectionsInit ==
    /\ \E in \in SectionsInputs :
          /\ gs_data = in[1]
          /\ gs_min_length = in[2]
    /\ gs_result = [rule |-> 0, sections |-> <<>>]
    /\ gs_pc = "call"

\* lines 47-168: the call returns
GetSectionsReturn ==
    /\ gs_pc = "call"
    /\ gs_result' = GetSectionsFromJson(gs_data, gs_min_length)
    /\ gs_pc' = "returned"
    /\ UNCHANGED <<gs_data, gs_min_length>>

SectionsNext ==
    \/ GetSectionsReturn /\ UNCHANGED <<chunkVars, cacheVars, orchVars, docVars, sizeVars, pathVars, walkVars, retryVars>>

(***************************************************************************)
(* TextChunker.chunk_document (src/chunker.py): one section per step.      *)
(***************************************************************************)
\* chunk_text from window start s on (lines 216-241); done is FALSE when
\* the loop never ends (the window start does not move and no tail is taken)
RECURSIVE ChunkTextFrom(_, _, _, _, _, _, _)
ChunkTextFrom(t, m, o, sn, s, ci, cs) ==
    IF s >= Len(t) THEN [done |-> TRUE, chunks |-> cs]
    ELSE LET cs1 == Append(cs, Chunk(Slice(t, s, s + m), sn, ci))
             s1 == NextStart(s, m, o)
         IN  IF TailCond(t, s1, o)
             THEN [done |-> TRUE, chunks |-> TailChunks(t, s1, o, cs1, sn, ci + 1)]
             ELSE IF s1 = s THEN [done |-> FALSE, chunks |-> cs1]
             ELSE ChunkTextFrom(t, m, o, sn, s1, ci + 1, cs1)

\* chunk_text(text, section_name) as a whole (lines 196-251)
ChunkText(t, m, o, sn) ==
    IF t = <<>> THEN [done |-> TRUE, chunks |-> <<>>]
    ELSE ChunkTextFrom(t, m, o, sn, 0, 0, <<>>)

W_OriginalDocTitleInSection ==
    <<"O", "r", "i", "g", "i", "n", "a", "l", "D", "o", "c", "T", "i", "t", "l", "e",
      "I", "n", "S", "e", "c", "t", "i", "o", "n">>

\* mutant of SectionIdentifier: the default identifier replaces every name
SectionIdentifierDefault(i, section_name) ==
    Str(W_OriginalDocTitleInSection \o <<Digit(i + 1)>>)

\* line 269: the name given to the chunks of section i (0-based)
SectionIdentifier(i, section_name) ==
    IF Truthy(section_name) THEN section_name
    ELSE Str(W_OriginalDocTitleInSection \o <<Digit(i + 1)>>)

\* line 272: not section_content or not section_content.strip()
BlankSection(section_content) == Strip(section_content) = <<>>

\* the sections chunk_document is called with: named and unnamed sections
\* with text, blank or empty content
SectionAlphabet == {"a", " "}
SectionTexts == SeqUpTo(SectionAlphabet, MaxContentLen)
FirstSections == {Section(n, c) : n \in {Null, Str(<<"S", "1">>)}, c \in SectionTexts}
LaterSections == {Section(n, c) : n \in {Str(<<>>), Str(<<"S", "2">>)}, c \in SectionTexts}
\* a named section, a whitespace-only section and another named section
ThreeSections ==
    <<Section(Str(<<"S", "1">>), <<"a", "a", "a">>), Section(Null, <<" ", " ">>),
      Section(Str(<<"S", "2">>), <<"a", " ", "a">>)>>
SectionLists ==
    {<<>>, ThreeSections} \cup {<<a>> : a \in FirstSections}
                          \cup {<<a, b>> : a \in FirstSections, b \in LaterSections}

\* chunk_document is not in use (the other specifications)
DocOff ==
    /\ cd_sections = <<>>
    /\ cd_i = 0
    /\ all_chunks = <<>>
    /\ cd_pc = "off"

\* TextChunker(max_chunk_size, overlap), then lines 264-266 of a call
\* chunk_document(file_path, sections)
DocInit ==
    /\ cd_sections \in SectionLists
    /\ max_chunk_size \in 0..MaxChunkSize
    /\ overlap \in 0..MaxOverlap
    /\ cd_i = 0
    /\ all_chunks = <<>>
    /\ cd_pc = "loop"
    /\ text = <<>> /\ start = 0 /\ chunk_index = 0 /\ chunks = <<>>
    /\ cpc = "off" /\ tailEmitted = FALSE

\* lines 268-278: one iteration of the loop over the sections; the call of
\* chunk_text has to return for the iteration to end
ChunkDocumentSection ==
    /\ cd_pc = "loop"
    /\ cd_i < Len(cd_sections)
    /\ LET section_name == cd_sections[cd_i + 1].name
           section_content == cd_sections[cd_i + 1].content
           section_identifier == SectionIdentifier(cd_i, section_name)
           text_chunks == ChunkText(section_content, max_chunk_size, overlap,
                                    section_identifier)
       IN  IF BlankSection(section_content)
           THEN all_chunks' = all_chunks                     \* continue
           ELSE /\ text_chunks.done
                /\ all_chunks' = all_chunks \o text_chunks.chunks
    /\ cd_i' = cd_i + 1
    /\ UNCHANGED <<cd_sections, cd_pc>>

\* lines 280-281: return all_chunks
ChunkDocumentReturn ==
    /\ cd_pc = "loop"
    /\ cd_i >= Len(cd_sections)
    /\ cd_pc' = "returned"
    /\ UNCHANGED <<cd_sections, cd_i, all_chunks>>

DocNext ==
    \/ ChunkDocumentSection /\ UNCHANGED <<chunkVars, cacheVars, orchVars, secVars, sizeVars, pathVars, walkVars, retryVars>>
    \/ ChunkDocumentReturn /\ UNCHANGED <<chunkVars, cacheVars, orchVars, secVars, sizeVars, pathVars, walkVars, retryVars>>

(***************************************************************************)
(* run_summarization, file mode on a news article: the dynamic chunk size  *)
(* (src/orchestrator.py lines 126-161).                                    *)
(***************************************************************************)
\* math.ceil(a / b) for a >= 0, b > 0
CeilDiv(a, b) == (a + b - 1) \div b

\* LLMSummarizer.estimate_tokens (summarization.py lines 36-41):
\* int(len(text) / 3.5), 0 for the empty text
EstimateTokens(n) == IF n = 0 THEN 0 ELSE (n * CharPerTokenDen) \div CharPerTokenNum

\* mutant of NumChunksIdeal: the quotient is rounded down
NumChunksIdealFloor(estimated_tokens) ==
    Max(MinNumChunks, estimated_tokens \div SafeTokensPerChunk)

\* lines 139-142
NumChunksIdeal(estimated_tokens) ==
    Max(MinNumChunks, CeilDiv(estimated_tokens, SafeTokensPerChunk))

\* lines 150-158
CharChunkSizeForSplitter(n, num_chunks_ideal) ==
    Max(MinCharChunkForSplitter, n \div num_chunks_ideal)

\* mutant of CharChunkOverlap: the tenth is not taken
CharChunkOverlapWhole(size) == Max(MinChunkOverlap, size)

\* line 161: max(1000, int(char_chunk_size_for_splitter * 0.1))
CharChunkOverlap(size) == Max(MinChunkOverlap, size \div OverlapDivisor)

NoPlan == [estimated_tokens |-> 0, chunked |-> FALSE, num_chunks_ideal |-> 0,
           char_chunk_size_for_splitter |-> 0, char_chunk_overlap |-> 0]

\* the lengths of the news texts: a grid, the lengths around the content
\* limit (190,000 tokens) and the text of 500,000 estimated tokens
TextLengths ==
    {k * 12345 : k \in 0..MaxLenSteps}
        \cup {((ContentTokenLimit * CharPerTokenNum) \div CharPerTokenDen) + d : d \in 0..4}
        \cup {(500000 * CharPerTokenNum) \div CharPerTokenDen}

\* dynamic chunking is not in use (the other specifications)
SizingOff ==
    /\ total_chars = 0
    /\ plan = NoPlan
    /\ dc_pc = "off"

\* line 122: the content of a news article
SizingInit ==
    /\ total_chars \in TextLengths
    /\ plan = NoPlan
    /\ dc_pc = "estimate"

\* lines 126-161
DynamicChunking ==
    /\ dc_pc = "estimate"
    /\ LET estimated_tokens == EstimateTokens(total_chars)
           num_chunks_ideal == NumChunksIdeal(estimated_tokens)
           size == CharChunkSizeForSplitter(total_chars, num_chunks_ideal)
       IN  plan' = IF estimated_tokens > ContentTokenLimit
                   THEN [estimated_tokens |-> estimated_tokens, chunked |-> TRUE,
                         num_chunks_ideal |-> num_chunks_ideal,
                         char_chunk_size_for_splitter |-> size,
                         char_chunk_overlap |-> CharChunkOverlap(size)]
                   ELSE [NoPlan EXCEPT !.estimated_tokens = estimated_tokens]
    /\ dc_pc' = "planned"
    /\ UNCHANGED total_chars

SizingNext ==
    \/ DynamicChunking /\ UNCHANGED <<chunkVars, cacheVars, orchVars, secVars, docVars, pathVars, walkVars, retryVars>>

(***************************************************************************)
(* run_summarization: the paths of the artifacts (src/orchestrator.py      *)
(* lines 84-91, 229-235, 291-292, 376-377, 415-416).  Names are sequences  *)
(* of characters.  Every unit of every file is taken to be summarized      *)
(* (non-blank, not cached), so that every path the run can write is        *)
(* written.                                                                *)
(***************************************************************************)
W_summary_md == <<"_", "s", "u", "m", "m", "a", "r", "y", ".", "m", "d">>
W_meta_json == <<"_", "m", "e", "t", "a", ".", "j", "s", "o", "n">>
W_section == <<"_", "s", "e", "c", "t", "i", "o", "n", "_">>
W_master == <<"_", "m", "a", "s", "t", "e", "r">>
W_cross == <<"_", "c", "r", "o", "s", "s">>
\* line 396: the theme when args carries none
W_theme ==
    <<"_", "g", "e", "n", "e", "r", "a", "l", "_", "c", "r", "o", "s", "s", "_",
      "s", "u", "m", "m", "a", "r", "y">>

\* the characters \w, '-', '_' and '.' of the names of the model
NameChars == {"a", "b", "_", "-", "."}

\* line 232: re.sub(r'[^\w\-_.]', '_', output_file_base)
Sanitize(name) == [k \in 1..Len(name) |-> IF name[k] \in NameChars THEN name[k] ELSE "_"]

\* lines 229-232: the base of the artifact names in file mode
OutputFileBase(f) ==
    IF f.news THEN Sanitize(IF Present(f.id) THEN f.id.s ELSE f.base) ELSE f.base

\* lines 88-90 and 234-235, 291-292, 376-377, 415-416: an artifact path is
\* <output_dir>/<mode>-level/<directory of the file below input_dir>/<name>
ArtifactPath(m, f, name) == [level |-> m, dir |-> f.dir, name |-> name]

\* the two paths written for one unit
UnitPaths(m, f, stem) ==
    <<ArtifactPath(m, f, stem \o W_summary_md), ArtifactPath(m, f, stem \o W_meta_json)>>

RECURSIVE NodePaths(_, _)
NodePaths(f, n) ==
    IF n = 0 THEN <<>>
    ELSE NodePaths(f, n - 1) \o UnitPaths("node", f, f.base \o W_section \o <<Digit(n)>>)

\* the paths written while file f is processed in mode m
FilePaths(m, f) ==
    CASE m = "file" -> UnitPaths(m, f, OutputFileBase(f))
      [] m = "node" /\ ~f.news -> NodePaths(f, f.nsections)
      [] m = "master" /\ ~f.news -> UnitPaths(m, f, f.base \o W_master)
      [] m = "cross" -> UnitPaths(m, f, f.base \o W_theme \o W_cross)
      [] OTHER -> <<>>

\* line 232: re.sub raises TypeError when the `id` of a news object is not a string
IdRaises(m, f) == m = "file" /\ f.news /\ Present(f.id) /\ ~IsStr(f.id)

\* an input file: the directory below input_dir, the file name (base name and
\* extension), whether the path has a /news/ segment, the `id` field of a
\* news object and the number of sections of a filing
InputFile(news, dir, base, ext, id, nsections) ==
    [news |-> news, dir |-> dir, base |-> base, ext |-> ext, id |-> id,
     nsections |-> nsections]

IdValues == {Absent, Num, Str(<<"a">>), Str(<<"b">>), Str(<<"a", "/", "b">>),
             Str(<<"a", "_", "b">>)}
InputFiles ==
    {InputFile(TRUE, d, b, e, i, 0) :
        d \in {"2025-01", "2025-02"}, b \in {<<"a">>, <<"b">>}, e \in {".json", ".JSON"},
        i \in IdValues}
    \cup {InputFile(FALSE, d, b, e, Absent, n) :
        d \in {"BankA", "BankB"}, b \in {<<"a">>, <<"b">>}, e \in {".json", ".JSON"},
        n \in {1, 2}}

\* the file a path names: two files of a list never share directory and name
FileName(f) == <<f.dir, f.base, f.ext>>

PathFileLists ==
    {<<f>> : f \in InputFiles}
        \cup {p \in {<<f, g>> : f \in InputFiles, g \in InputFiles} :
                   FileName(p[1]) # FileName(p[2])}

\* the output paths are not modelled (the other specifications)
PathsOff ==
    /\ op_files = <<>>
    /\ op_mode = "none"
    /\ op_idx = 0
    /\ op_writes = <<>>
    /\ op_pc = "off"

\* lines 10-54: a run over a non-empty list of files
PathsInit ==
    /\ op_files \in PathFileLists
    /\ op_mode \in {"file", "node", "master", "cross"}
    /\ op_idx = 1
    /\ op_writes = <<>>
    /\ op_pc = "running"

\* lines 56-427: one file is processed and its artifacts are written
WriteArtifacts ==
    /\ op_pc = "running"
    /\ op_idx <= Len(op_files)
    /\ IF IdRaises(op_mode, op_files[op_idx])
       THEN /\ op_pc' = "raised"
            /\ UNCHANGED <<op_idx, op_writes>>
       ELSE /\ op_writes' = op_writes \o FilePaths(op_mode, op_files[op_idx])
            /\ op_idx' = op_idx + 1
            /\ op_pc' = op_pc
    /\ UNCHANGED <<op_files, op_mode>>

\* line 429: the loop is over
PathsReturn ==
    /\ op_pc = "running"
    /\ op_idx > Len(op_files)
    /\ op_pc' = "returned"
    /\ UNCHANGED <<op_files, op_mode, op_idx, op_writes>>

PathsNext ==
    \/ WriteArtifacts /\ UNCHANGED <<chunkVars, cacheVars, orchVars, secVars, docVars, sizeVars, walkVars, retryVars>>
    \/ PathsReturn /\ UNCHANGED <<chunkVars, cacheVars, orchVars, secVars, docVars, sizeVars, walkVars, retryVars>>

(***************************************************************************)
(* run_summarization: file discovery (src/orchestrator.py lines 19-58).    *)
(* A path is a sequence of segments, absolute or relative; file names are  *)
(* sequences of characters.                                                *)
(***************************************************************************)
PathOf(abs, segs) == [abs |-> abs, segs |-> segs]

\* segment k of p has a "/" in front of it in the path string
SlashBefore(p, k) == k > 1 \/ p.abs

\* "/s1/.../sn/" in p, for the path string p and the segments pat
ContainsSegments(p, pat) ==
    \E k \in 1..Len(p.segs) :
        /\ SlashBefore(p, k)
        /\ k + Len(pat) - 1 < Len(p.segs)
        /\ SubSeq(p.segs, k, k + Len(pat) - 1) = pat

\* re.match(r"^\d{4}-\d{2}$", segment), for the segments of the model
Dated(seg) == seg \in {"2025-01", "2025-02"}

\* re.search(r"/\d{4}-\d{2}$", root)
EndsDated(p) ==
    /\ p.segs # <<>>
    /\ Dated(p.segs[Len(p.segs)])
    /\ SlashBefore(p, Len(p.segs))

\* str.lower() for the characters of the file names of the model
LowerChar(c) ==
    CASE c = "I" -> "i" [] c = "J" -> "j" [] c = "S" -> "s" [] c = "O" -> "o"
      [] c = "N" -> "n" [] c = "B" -> "b" [] OTHER -> c
Lower(name) == [k \in 1..Len(name) |-> LowerChar(name[k])]

W_dot_json == <<".", "j", "s", "o", "n">>
W_index_json == <<"i", "n", "d", "e", "x">> \o W_dot_json

\* lines 35 and 47
Processable(fname) ==
    EndsWith(Lower(fname), W_dot_json) /\ Lower(fname) # W_index_json

\* lines 23-30: input_dir is one YYYY-MM folder of a known news category
IsSpecificNewsMonthFolder(dir) ==
    /\ dir.segs # <<>>
    /\ Dated(dir.segs[Len(dir.segs)])
    /\ \E cat \in {"CA Banks", "reg", "usbank"} : ContainsSegments(dir, <<"news", cat>>)

\* lines 41-44: a directory of the walk whose files are not looked at
SkippedRoot(root) == ContainsSegments(root, <<"news">>) /\ ~EndsDated(root)

\* os.walk(input_dir): the directories at or below dir
IsBelow(root, dir) ==
    /\ root.abs = dir.abs
    /\ Len(root.segs) >= Len(dir.segs)
    /\ SubSeq(root.segs, 1, Len(dir.segs)) = dir.segs

\* line 58: "/news/" in filepath
IsNewsArticle(root, fname) == ContainsSegments(PathOf(root.abs, Append(root.segs, "f")), <<"news">>)

FoundFile(root, fname) ==
    [root |-> root, fname |-> fname, is_news_article |-> IsNewsArticle(root, fname)]

\* lines 32-48: files_to_process
FilesToProcess(dir, dirs, fnames) ==
    IF IsSpecificNewsMonthFolder(dir)
    THEN {FoundFile(dir, f) : f \in {g \in fnames : dir \in dirs /\ Processable(g)}}
    ELSE {FoundFile(r, f) : r \in {q \in dirs : IsBelow(q, dir) /\ ~SkippedRoot(q)},
                            f \in {g \in fnames : Processable(g)}}

\* the file names every directory of the tree holds
FileNames ==
    { <<"a">> \o W_dot_json, <<"B", ".", "J", "S", "O", "N">>, W_index_json,
      <<"I", "n", "d", "e", "x", ".", "J", "S", "O", "N">>, <<"n", ".", "t", "x", "t">> }

\* the directories below a data root: a news tree with a category, dated
\* folders, a subfolder of a dated folder, and a tree of filings
DirSuffixes ==
    { <<"news">>, <<"news", "reg">>, <<"news", "reg", "2025-01">>,
      <<"news", "reg", "2025-01", "sub">>, <<"news", "other", "2025-02">>,
      <<"Banks", "BankA">> }
InputSuffixes == DirSuffixes \cup {<<>>, <<"Banks">>}

\* the data root is "/Data", "Data", "/" or the working directory
DataRoots == {PathOf(TRUE, <<"Data">>), PathOf(FALSE, <<"Data">>), PathOf(TRUE, <<>>),
              PathOf(FALSE, <<>>)}

\* file discovery is not modelled (the other specifications)
WalkOff ==
    /\ input_dir = PathOf(FALSE, <<>>)
    /\ tree = {}
    /\ files_to_process = {}
    /\ fd_pc = "off"

\* line 17: a call with an input directory of a tree on disk
WalkInit ==
    /\ \E r \in DataRoots :
          /\ \E i \in InputSuffixes : input_dir = PathOf(r.abs, r.segs \o i)
          /\ input_dir.abs \/ input_dir.segs # <<>>
          /\ \E ds \in SUBSET DirSuffixes : tree = {PathOf(r.abs, r.segs \o d) : d \in ds}
    /\ files_to_process = {}
    /\ fd_pc = "start"

\* lines 19-54: the files are collected; the run returns when there is none
Discover ==
    /\ fd_pc = "start"
    /\ files_to_process' = FilesToProcess(input_dir, tree, FileNames)
    /\ fd_pc' = IF files_to_process' = {} THEN "returned" ELSE "loop"
    /\ UNCHANGED <<input_dir, tree>>

WalkNext ==
    \/ Discover /\ UNCHANGED <<chunkVars, cacheVars, orchVars, secVars, docVars, sizeVars, pathVars, retryVars>>

(***************************************************************************)
(* LLMSummarizer.summarize (src/summarization.py): the retry loop, one     *)
(* step at a time.                                                         *)
(***************************************************************************)
\* what chain.run can do at one attempt: raise, or return one of two responses
LLMOutcomes == {"raise", "response A", "response B"}

\* mutant of Backoff: the first wait is one second
BackoffFromOne(n) == 2 ^ (n - 1)

\* line 165: time.sleep(2 ** retries)
Backoff(n) == 2 ^ n

\* line 163: the error string returned when the retries are used up
RetryErrorText(mr) == "Error: Failed to generate summary after " \o ToString(mr + 1) \o " attempts"

RetryOff ==
    /\ rl_max_retries = 0
    /\ rl_llm = <<>>
    /\ rl_retries = 0
    /\ rl_summary_text = ""
    /\ rl_trace = <<>>
    /\ rl_pc = "off"

\* lines 127-128: retries = 0, summary_text = ""
RetryInit ==
    /\ rl_max_retries \in 0..MaxLoopRetries
    /\ rl_llm \in [1..(rl_max_retries + 1) -> LLMOutcomes]
    /\ rl_retries = 0
    /\ rl_summary_text = ""
    /\ rl_trace = <<>>
    /\ rl_pc = "loop"

\* lines 129-164: one attempt; success breaks, the last failure returns the error
Attempt ==
    /\ rl_pc = "loop"
    /\ rl_retries <= rl_max_retries
    /\ LET a == rl_retries + 1
           r == rl_llm[a]
       IN  /\ rl_trace' = Append(rl_trace, [ev |-> "call", attempt |-> a, outcome |-> r, secs |-> 0])
           /\ IF r # "raise"
              THEN /\ rl_summary_text' = r
                   /\ rl_retries' = rl_retries
                   /\ rl_pc' = "break"
              ELSE /\ rl_retries' = rl_retries + 1
                   /\ IF RetriesExhausted(rl_retries + 1, rl_max_retries)
                      THEN /\ rl_summary_text' = RetryErrorText(rl_max_retries)
                           /\ rl_pc' = "returned"
                      ELSE /\ rl_summary_text' = rl_summary_text
                           /\ rl_pc' = "sleep"
    /\ UNCHANGED <<rl_max_retries, rl_llm>>

\* line 165: the wait before the next attempt
Sleep ==
    /\ rl_pc = "sleep"
    /\ rl_trace' = Append(rl_trace, [ev |-> "sleep", attempt |-> rl_retries,
                                      outcome |-> "none", secs |-> Backoff(rl_retries)])
    /\ rl_pc' = "loop"
    /\ UNCHANGED <<rl_max_retries, rl_llm, rl_retries, rl_summary_text>>

\* line 167: return summary_text
RetryReturn ==
    /\ rl_pc = "break"
    /\ rl_pc' = "returned"
    /\ UNCHANGED <<rl_max_retries, rl_llm, rl_retries, rl_summary_text, rl_trace>>

RetryNext ==
    \/ Attempt /\ UNCHANGED <<chunkVars, cacheVars, orchVars, secVars, docVars, sizeVars, pathVars, walkVars>>
    \/ Sleep /\ UNCHANGED <<chunkVars, cacheVars, orchVars, secVars, docVars, sizeVars, pathVars, walkVars>>
    \/ RetryReturn /\ UNCHANGED <<chunkVars, cacheVars, orchVars, secVars, docVars, sizeVars, pathVars, walkVars>>

(***************************************************************************)
(* Specifications.                                                         *)
(***************************************************************************)
\* chunk_document on every list of SectionLists and every chunker
InitRetry == RetryInit /\ ChunkOff /\ CacheOff /\ OrchOff /\ SectionsOff /\ DocOff /\ SizingOff /\ PathsOff /\ WalkOff
SpecRetry == InitRetry /\ [][RetryNext]_vars

InitDoc == DocInit /\ CacheOff /\ OrchOff /\ SectionsOff /\ SizingOff /\ PathsOff /\ WalkOff /\ RetryOff
SpecDoc == InitDoc /\ [][DocNext]_vars

\* the dynamic chunk size for every text length of TextLengths
InitSizing == SizingInit /\ ChunkOff /\ CacheOff /\ OrchOff /\ SectionsOff /\ DocOff /\ PathsOff /\ WalkOff /\ RetryOff
SpecSizing == InitSizing /\ [][SizingNext]_vars

\* the artifact paths of a run over every list of PathFileLists
InitPaths == PathsInit /\ ChunkOff /\ CacheOff /\ OrchOff /\ SectionsOff /\ DocOff /\ SizingOff /\ WalkOff /\ RetryOff
SpecPaths == InitPaths /\ [][PathsNext]_vars

\* file discovery for every input directory and tree
InitWalk == WalkInit /\ ChunkOff /\ CacheOff /\ OrchOff /\ SectionsOff /\ DocOff /\ SizingOff /\ PathsOff /\ RetryOff
SpecWalk == InitWalk /\ [][WalkNext]_vars

\* chunk_text on every input of ChunkInputs
InitChunk == ChunkInit /\ CacheOff /\ OrchOff /\ SectionsOff /\ DocOff /\ SizingOff /\ PathsOff /\ WalkOff /\ RetryOff
SpecChunk == InitChunk /\ [][ChunkNext]_vars

\* one CacheManager and any sequence of is_cached / mark_cached calls
InitCache == CacheInit /\ ChunkOff /\ OrchOff /\ SectionsOff /\ DocOff /\ SizingOff /\ PathsOff /\ WalkOff /\ RetryOff
SpecCache == InitCache /\ [][CacheNext]_vars

\* up to two runs of run_summarization over one input tree
Init == OrchInit /\ ChunkOff /\ SectionsOff /\ DocOff /\ SizingOff /\ PathsOff /\ WalkOff /\ RetryOff
Next == OrchNext
Spec == Init /\ [][Next]_vars

\* one call of get_sections_from_json
InitSections == SectionsInit /\ ChunkOff /\ CacheOff /\ OrchOff /\ DocOff /\ SizingOff /\ PathsOff /\ WalkOff /\ RetryOff
SpecSections == InitSections /\ [][SectionsNext]_vars


(***************************************************************************)
(* Claims about chunk_text.                                                *)
(***************************************************************************)
\* chunk 0 followed by every later chunk without its first `o` characters
RECURSIVE JoinNonOverlap(_, _, _)
JoinNonOverlap(cs, o, k) ==
    IF k > Len(cs) THEN <<>>
    ELSE (IF k = 1 THEN cs[k].content ELSE SliceFrom(cs[k].content, o))
            \o JoinNonOverlap(cs, o, k + 1)

\* C1: for max_chunk_size > overlap >= 0, when chunk_text has returned, chunk 0
\* followed by every later chunk minus its first `overlap` characters is the text.
C1_ChunkCoverage ==
    (cpc = "returned" /\ max_chunk_size > overlap)
        => JoinNonOverlap(chunks, overlap, 1) = text

C1_Witness ==
    /\ cpc = "returned"
    /\ max_chunk_size > overlap
    /\ overlap > 0
    /\ Len(chunks) >= 3
    /\ \E i, j \in 1..Len(text) : text[i] # text[j]

\* C2: for max_chunk_size >= 1, the i-th chunk built by one chunk_text call has
\* chunk_index i (counted from 0), also when the tail branch emits the last one.
C2_ChunkIndices ==
    max_chunk_size >= 1
        => \A i \in 1..Len(chunks) : chunks[i].chunk_index = i - 1

C2_Witness ==
    /\ cpc = "returned"
    /\ max_chunk_size >= 1
    /\ tailEmitted
    /\ Len(chunks) >= 3

\* C3: for max_chunk_size > overlap > 0, the last `overlap` characters of every
\* chunk equal the first `overlap` characters of the next one; 150 characters
\* with max 100 and overlap 20 give two chunks of 100 and 70 characters.
C3_OverlapCorrect ==
    (cpc = "returned" /\ max_chunk_size > overlap /\ overlap > 0)
        => /\ \A k \in 1..(Len(chunks) - 1) :
                 LastN(chunks[k].content, overlap) = Slice(chunks[k + 1].content, 0, overlap)
           /\ (Len(text) = TestTextLen /\ max_chunk_size = TestChunkSize /\ overlap = TestOverlap)
                 => /\ Len(chunks) = 2
                    /\ Len(chunks[1].content) = 100
                    /\ Len(chunks[2].content) = 70

C3_Witness ==
    /\ cpc = "returned"
    /\ Len(text) = TestTextLen
    /\ max_chunk_size = TestChunkSize
    /\ overlap = TestOverlap
    /\ Len(chunks) = 2

(***************************************************************************)
(* Claims about CacheManager.                                              *)
(***************************************************************************)
\* C4: with caching enabled, is_cached(k) returns true if and only if
\* mark_cached(k) was called earlier, and the set of marked keys only grows.
C4_MarkThenCached ==
    /\ [](( cm_enabled /\ lastCall.op = "is_cached")
             => (lastCall.result <=> lastCall.key \in marked))
    /\ [][cacheFiles \subseteq cacheFiles']_vars

\* C5: a manager built with enabled = false answers false to every is_cached,
\* writes no cache file and does not create the cache directory.
C5_NoCacheBypass ==
    ~cm_enabled_arg
        => /\ ~dirCreated
           /\ written = {}
           /\ (lastCall.op = "is_cached" => lastCall.result = FALSE)

C5_Witness ==
    /\ ~cm_enabled_arg
    /\ lastCall.op = "is_cached"
    /\ lastCall.key \in marked
    /\ lastCall.key \notin cacheFiles
    /\ cacheFiles # {}

(***************************************************************************)
(* Claims about run_summarization.                                         *)
(***************************************************************************)
WorkEvents == {"summarize", "write_summary", "write_metadata"}

\* C6: when a run in some mode has returned and the same mode is run again
\* over the same files with caching enabled, the second run makes no summarizer
\* call and no write_summary or write_metadata call, for every kind of
\* document, an oversized news article included.
C6_IdempotentRerun ==
    (runNo = 2 /\ prev.mode = mode /\ prev.ended = "returned" /\ prev.enabled /\ cm_enabled)
        => \A k \in 1..Len(log) : log[k].ev \notin WorkEvents

\* C7: a summarize call whose every LLM attempt raises makes exactly
\* max_retries + 1 attempts, raises nothing and returns a string that starts
\* with "Error:"; the loop then moves on to the next file.
C7_GracefulDegradation ==
    \A k \in 1..Len(log) :
        (log[k].ev = "summarize" /\ log[k].text # "ValueError"
            /\ log[k].llm > max_retries + 1)
        => /\ log[k].attempts = max_retries + 1
           /\ IsErrorText(log[k].text)
           /\ log[k].file < idx

C7_Witness ==
    /\ max_retries > 0
    /\ \E k \in 1..Len(log) :
          /\ log[k].ev = "summarize"
          /\ log[k].llm > max_retries + 1
          /\ log[k].attempts = max_retries + 1
          /\ IsErrorText(log[k].text)
          /\ \E j \in (k + 1)..Len(log) :
                log[j].file = log[k].file + 1 /\ log[j].ev = "summarize"

\* C8: run_summarization never aborts on a per-document error: whatever the
\* files hold and whatever the LLM or the prompt lookup does, the run returns
\* normally and the files after a failing one are processed.
C8_BatchNeverAborts == rpc # "raised"

\* C9: a file that is not valid JSON or cannot be read causes no summarizer
\* call, no cache operation and no artifact write, and the loop continues with
\* the next file.
C9_MalformedSkipped ==
    /\ [](\A i \in 1..Len(files) :
            files[i].load # "ok"
            => /\ \A k \in 1..Len(log) : log[k].file = i => log[k].ev = "error"
               /\ ~(rpc = "raised" /\ idx = i))
    /\ [][(rpc = "running" /\ idx <= Len(files) /\ files[idx].load # "ok")
            => /\ idx' = idx + 1
               /\ rpc' = "running"
               /\ UNCHANGED <<cacheFiles, marked, written, outFiles>>]_vars

C9_Witness ==
    /\ Len(files) = 2
    /\ files[1].load # "ok"
    /\ idx = 3
    /\ rpc = "returned"
    /\ \E k \in 1..Len(log) : log[k].file = 1 /\ log[k].ev = "error"
    /\ \E k \in 1..Len(log) : log[k].file = 2 /\ log[k].ev = "write_summary"

NodeLevel(disk) == {f \in disk : f[1][1] = "node"}

EvIdx(i, kinds) == {k \in 1..Len(log) : log[k].file = i /\ log[k].ev \in kinds}

\* the events at the positions K come one after the other, kind by kind
InOrder(i, kindSeq) ==
    \A a \in 1..(Len(kindSeq) - 1) :
        \A k \in EvIdx(i, {kindSeq[a]}), j \in EvIdx(i, {kindSeq[a + 1]}) : k < j

\* C11: in file mode, for every document with non-blank text whose processing
\* has ended, oversized or not, the cache key is checked before any summarizer
\* call for that document; on a hit there is no summarizer call, no mark and no
\* write; on a miss the summarizer call(s) are followed by one mark of the
\* checked key, then one write_summary and one write_metadata.
C11_FileProtocol ==
    mode = "file" =>
        \A i \in 1..(idx - 1) :
            (files[i].load = "ok" /\ EvIdx(i, {"is_cached", "summarize"}) # {}) =>
                /\ Cardinality(EvIdx(i, {"is_cached"})) = 1
                /\ \A c \in EvIdx(i, {"is_cached"}) :
                      /\ \A k \in EvIdx(i, {"summarize"}) : c < k
                      /\ log[c].text = "hit" =>
                            EvIdx(i, WorkEvents \cup {"mark_cached"}) = {}
                      /\ log[c].text = "miss" =>
                            /\ EvIdx(i, {"summarize"}) # {}
                            /\ Cardinality(EvIdx(i, {"mark_cached"})) = 1
                            /\ Cardinality(EvIdx(i, {"write_summary"})) = 1
                            /\ Cardinality(EvIdx(i, {"write_metadata"})) = 1
                            /\ \A m \in EvIdx(i, {"mark_cached"}) : log[m].key = log[c].key
                            /\ InOrder(i, <<"summarize", "mark_cached", "write_summary",
                                            "write_metadata">>)

\* the files the loop has reached: processed, or the one whose processing raised
Reached(i) == i < idx \/ (i = idx /\ rpc = "raised")

\* the positions of the events of unit u of file i whose kind is in kinds
UnitIdx(i, u, kinds) == {k \in EvIdx(i, kinds) : log[k].unit = u}

AllEvents == WorkEvents \cup {"is_cached", "mark_cached", "warning", "error"}

\* C12: in node mode, every extracted section of a filing with non-blank text
\* is handled in extraction order with a key over (file, section id, section
\* text); a cached section causes no summarizer call and no write, an uncached
\* one exactly one summarizer call, one mark and one artifact
\* <basename>_section_<n>, n being the 1-based position in the extracted list;
\* skipped (blank) sections cause nothing and do not shift the numbers.
C12_NodeProtocol ==
    mode = "node" =>
        \A i \in 1..Len(files) :
            (Reached(i) /\ files[i].load = "ok" /\ ~files[i].news) =>
                /\ \A n \in 1..Len(files[i].sections) :
                      LET u == <<"section", n>>
                      IN  IF files[i].sections[n] = "blank"
                          THEN UnitIdx(i, u, AllEvents) = {}
                          ELSE /\ Cardinality(UnitIdx(i, u, {"is_cached"})) = 1
                               /\ \A c \in UnitIdx(i, u, {"is_cached"}) :
                                     /\ log[c].key = <<"node", i, n, <<"text">>>>
                                     /\ log[c].text = "hit" =>
                                           UnitIdx(i, u, WorkEvents \cup {"mark_cached"}) = {}
                                     /\ log[c].text = "miss" =>
                                           /\ Cardinality(UnitIdx(i, u, {"summarize"})) = 1
                                           /\ Cardinality(UnitIdx(i, u, {"mark_cached"})) = 1
                                           /\ Cardinality(UnitIdx(i, u, {"write_summary"})) = 1
                                           /\ \A w \in UnitIdx(i, u, {"write_summary"}) :
                                                 log[w].key = <<"node", i, u, "md">>
                /\ \A k \in EvIdx(i, AllEvents), j \in EvIdx(i, AllEvents) :
                      (log[k].unit[1] = "section" /\ log[j].unit[1] = "section"
                          /\ log[k].unit[2] < log[j].unit[2]) => k < j

\* C13: in node mode a news article is skipped: no summarizer call, no cache
\* mark, no artifact, and a warning naming the file is logged for the skip.
C13_NewsSkippedInNodeMode ==
    mode = "node" =>
        \A i \in 1..(idx - 1) :
            (files[i].load = "ok" /\ files[i].news) =>
                /\ EvIdx(i, WorkEvents \cup {"mark_cached"}) = {}
                /\ EvIdx(i, {"warning"}) # {}

\* the node-level summary section_n of file i exists on disk
HasNodeSummary(i, n) == \E f \in outFiles : f[1] = <<"node", i, <<"section", n>>, "md">>

\* the k with section_1 .. section_k on disk and section_{k+1} not
FirstRun(i) ==
    CHOOSE k \in 0..Len(files[i].sections) :
        /\ \A n \in 1..k : HasNodeSummary(i, n)
        /\ ~HasNodeSummary(i, k + 1)

\* the texts of section_1 .. section_k of file i, in that order
NodeTexts(i, k) ==
    [n \in 1..k |-> (CHOOSE f \in outFiles : f[1] = <<"node", i, <<"section", n>>, "md">>)[2]]

\* C14: in master mode, when node-level artifacts section_1 .. section_k exist
\* for a filing and section_{k+1} does not, exactly section_1 .. section_k are
\* read in order and joined with the separator, the cache key is taken over the
\* combined text, and on a miss there is exactly one summarizer call and
\* exactly one artifact <basename>_master_summary.
C14_MasterCombination ==
    mode = "master" =>
        \A i \in 1..Len(files) :
            (Reached(i) /\ files[i].load = "ok" /\ ~files[i].news /\ FirstRun(i) >= 1) =>
                /\ Cardinality(EvIdx(i, {"is_cached"})) = 1
                /\ \A c \in EvIdx(i, {"is_cached"}) :
                      /\ log[c].key = <<"master", i, 0,
                                        <<Join(NodeTexts(i, FirstRun(i)), NodeSeparator)>> >>
                      /\ log[c].text = "miss" =>
                            /\ Cardinality(EvIdx(i, {"summarize"})) = 1
                            /\ Cardinality(EvIdx(i, {"write_summary"})) = 1
                            /\ \A w \in EvIdx(i, {"write_summary"}) :
                                  log[w].key = <<"master", i, <<"master", 0>>, "md">>

\* the oversized news articles that file mode has processed
ChunkedDone(i) ==
    /\ mode = "file"
    /\ i < idx
    /\ files[i].load = "ok" /\ files[i].news /\ files[i].shape = "dict"
    /\ files[i].content = "big"

\* the position in the log of the summarizer call for chunk k of file i
ChunkCall(i, k) == CHOOSE e \in UnitIdx(i, <<"chunk", k>>, {"summarize"}) : TRUE

\* slot k of the combined text: the chunk's summary, or the inline marker
Slots(i) ==
    [k \in 1..Len(files[i].chunks) |->
        IF IsErrorText(log[ChunkCall(i, k)].text)
        THEN ChunkErrorMarker(k, log[ChunkCall(i, k)].text)
        ELSE log[ChunkCall(i, k)].text]

\* C15: for an oversized news article split into n non-blank chunks, file mode
\* calls the summarizer once per chunk in chunk order, and the summary text
\* written for the document is the per-chunk summaries joined by the separator
\* in chunk order, the slot of a failed chunk holding an "[Error ...]" marker.
C15_ChunkedSummary ==
    \A i \in 1..Len(files) :
        (ChunkedDone(i) /\ \A k \in 1..Len(files[i].chunks) : files[i].chunks[k] # "blank") =>
            /\ \A k \in 1..Len(files[i].chunks) :
                  Cardinality(UnitIdx(i, <<"chunk", k>>, {"summarize"})) = 1
            /\ \A k \in 1..(Len(files[i].chunks) - 1) : ChunkCall(i, k) < ChunkCall(i, k + 1)
            /\ \A w \in EvIdx(i, {"write_summary"}) :
                  log[w].text = Join(Slots(i), ChunkSeparator)

\* C16: for an oversized news article, if the summarization of every chunk
\* fails, the summary of the document is an explicit error string (it begins
\* with the error marker), not a summary produced from the failed chunks.
C16_AllChunksFail ==
    \A i \in 1..Len(files) :
        (/\ ChunkedDone(i)
         /\ EvIdx(i, {"summarize"}) # {}
         /\ \A e \in EvIdx(i, {"summarize"}) :
               log[e].unit[1] = "chunk" => IsErrorText(log[e].text))
        => \A w \in EvIdx(i, {"write_summary"}) : IsErrorText(log[w].text)

\* no template is loaded for mode m under filing type ft nor under "default"
NoTemplate(m, ft) == prompts[<<ft, m>>] # "loaded" /\ prompts[<<"default", m>>] # "loaded"

\* C17: when no prompt template exists for the mode under the document's
\* filing type nor under "default", the summarization of the unit yields an
\* explicit error-valued result and the batch goes on with the remaining
\* files: run_summarization does not raise.
C17_ConfigurationError ==
    \A e \in 1..Len(log) :
        (log[e].ev = "summarize" /\ NoTemplate(mode, FilingType(files[log[e].file])))
        => /\ IsErrorText(log[e].text)
           /\ log[e].file < idx
           /\ rpc # "raised"

\* C18: get_prompt_template(mode, filing_type) returns the template loaded for
\* (filing_type, mode) when one was loaded; otherwise the template loaded for
\* ("default", mode) when one was loaded, also when the specific entry exists
\* but could not be loaded; otherwise it raises ValueError and no LLM call is
\* made.
C18_TemplateResolution ==
    \A e \in 1..Len(log) :
        log[e].ev = "summarize" =>
            LET ft == FilingType(files[log[e].file])
            IN  /\ prompts[<<ft, mode>>] = "loaded" => log[e].template = "specific"
                /\ (prompts[<<ft, mode>>] # "loaded" /\ prompts[<<"default", mode>>] = "loaded")
                      => log[e].template = "default"
                /\ NoTemplate(mode, ft)
                      => (log[e].template = "ValueError" /\ log[e].attempts = 0
                             /\ log[e].text = "ValueError")
                /\ ~NoTemplate(mode, ft) => log[e].attempts >= 1

C18_Witness ==
    \E e \in 1..Len(log) :
        /\ log[e].ev = "summarize"
        /\ prompts[<<FilingType(files[log[e].file]), mode>>] = "none"
        /\ log[e].template = "default"
        /\ log[e].attempts >= 1

(***************************************************************************)
(* Claims about CacheManager failures.                                     *)
(***************************************************************************)
\* C19: if creating the cache directory or writing a cache entry fails, no
\* exception reaches the caller and caching is disabled from then on: every
\* later is_cached returns false and every later mark_cached does nothing.
\* A step that calls mark_cached(k) with caching enabled and leaves no file
\* for k is a failed write.
C19_CacheFailureDisables ==
    /\ [](cm_enabled_arg /\ ~cacheDirExists => ~cm_enabled)
    /\ [](~cm_enabled /\ lastCall.op = "is_cached" => ~lastCall.result)
    /\ [][(cm_enabled /\ lastCall'.op = "mark_cached" /\ lastCall'.key \notin cacheFiles')
            => ~cm_enabled']_vars
    /\ [][~cm_enabled => (~cm_enabled' /\ cacheFiles' = cacheFiles)]_vars

(***************************************************************************)
(* Claims about get_sections_from_json.                                    *)
(***************************************************************************)
\* C20: for every mapping document with a string `content` field, whatever
\* `sections` mapping or other fields are present, get_sections_from_json
\* applies only rule 1: it returns exactly one section (the `title` field or
\* none, the content) when len(content) >= min_length and no section when
\* len(content) < min_length, without falling back to a later rule.
C20_Rule1Priority ==
    (gs_pc = "returned" /\ gs_data.shape = "dict" /\ gs_data.content.t = "str") =>
        /\ gs_result.rule = 1
        /\ gs_result.sections =
              IF Len(gs_data.content.s) >= gs_min_length
              THEN <<[name |-> IF gs_data.title.t = "absent" THEN [t |-> "null"]
                               ELSE gs_data.title,
                      content |-> gs_data.content.s]>>
              ELSE <<>>

C20_Witness ==
    /\ gs_pc = "returned"
    /\ gs_data.shape = "dict"
    /\ gs_data.content.t = "str"
    /\ Len(gs_data.content.s) < gs_min_length
    /\ gs_data.sections.t = "map" /\ Len(gs_data.sections.m) = 3
    /\ gs_data.body.t = "str"
    /\ gs_result.sections = <<>>

\* the document is a mapping without a string `content` whose `sections` is a
\* mapping of names to strings
SectionsOfStrings ==
    /\ gs_pc = "returned"
    /\ gs_data.shape = "dict"
    /\ gs_data.content.t # "str"
    /\ gs_data.sections.t = "map"
    /\ \A k \in 1..Len(gs_data.sections.m) : gs_data.sections.m[k][2].t = "str"

\* the entries of a `sections` mapping as sections, in mapping order
EntrySections(m) ==
    [k \in 1..Len(m) |-> [name |-> [t |-> "str", s |-> m[k][1]], content |-> m[k][2].s]]

C22_MinLengthFilter ==
    gs_pc = "returned" =>
        \A k \in 1..Len(gs_result.sections) :
            Len(gs_result.sections[k].content) >= gs_min_length

\* the sections of the call that are not empty or whitespace-only, in order
NonBlankSections == SelectSeq(cd_sections, LAMBDA sec : Strip(sec.content) # <<>>)

\* the k-th returned chunk belongs to the n-th section that has chunks, n
\* being the number of chunks with index 0 up to the k-th
SectionOrdinal(k) == Cardinality({j \in 1..k : all_chunks[j].chunk_index = 0})

IsSliceOf(c, t) == \E a \in 0..Len(t), b \in 0..Len(t) : c = Slice(t, a, b)

\* C23: chunk_document returns the chunks of the sections in section order;
\* an empty or whitespace-only section contributes no chunk (and no error);
\* every chunk of a named section carries the section's name; chunk_index
\* restarts at 0 for each section and counts up within it
C23_ChunkDocument ==
    cd_pc = "returned" =>
        /\ (all_chunks = <<>>) = (NonBlankSections = <<>>)
        /\ all_chunks # <<>> =>
              /\ all_chunks[1].chunk_index = 0
              /\ SectionOrdinal(Len(all_chunks)) = Len(NonBlankSections)
        /\ \A k \in 1..Len(all_chunks) :
              LET c == all_chunks[k]
                  n == SectionOrdinal(k)
              IN  /\ n \in 1..Len(NonBlankSections)
                  /\ IsSliceOf(c.content, NonBlankSections[n].content)
                  /\ Truthy(NonBlankSections[n].name) =>
                        c.section_name = NonBlankSections[n].name
                  /\ c.chunk_index = 0 =>
                        c.content = Slice(NonBlankSections[n].content, 0, max_chunk_size)
                  /\ (k > 1 /\ c.chunk_index # 0) =>
                        c.chunk_index = all_chunks[k - 1].chunk_index + 1

C23_Witness ==
    /\ cd_pc = "returned"
    /\ cd_sections = ThreeSections
    /\ max_chunk_size = 2 /\ overlap = 1
    /\ Len(all_chunks) = 6
    /\ all_chunks[3].chunk_index = 2 /\ all_chunks[3].section_name = Str(<<"S", "1">>)
    /\ all_chunks[4].chunk_index = 0 /\ all_chunks[4].section_name = Str(<<"S", "2">>)

\* C24: for a news text whose estimated token count exceeds 190,000 the
\* ideal chunk count is max(2, ceil(estimated_tokens / 50,000)), the chunk
\* size max(20,000, floor(total_chars / count)) and the overlap
\* max(1,000, floor(0.1 * chunk size)); 500,000 tokens give 10 chunks and the
\* count is never below 2
C24_DynamicChunkSizing ==
    dc_pc = "planned" =>
        LET e == plan.estimated_tokens
            n == plan.num_chunks_ideal
            size == plan.char_chunk_size_for_splitter
            ov == plan.char_chunk_overlap
        IN  /\ plan.chunked = (e > 190000)
            /\ plan.chunked =>
                  /\ n >= 2
                  /\ n * 50000 >= e
                  /\ n > 2 => (n - 1) * 50000 < e
                  /\ size >= 20000
                  /\ size * n <= total_chars \/ size = 20000
                  /\ (size + 1) * n > total_chars
                  /\ ov >= 1000
                  /\ ov * 10 <= size \/ ov = 1000
                  /\ (ov + 1) * 10 > size
                  /\ e = 500000 => n = 10

C24_Witness ==
    /\ dc_pc = "planned"
    /\ plan.estimated_tokens = 500000
    /\ plan.chunked
    /\ plan.num_chunks_ideal = 10

\* C25: within one run no summary or metadata path is written more than once:
\* distinct (file, mode, section) units have distinct output paths, also two
\* news files of the same directory
C25_WriteOncePaths ==
    \A j \in 1..Len(op_writes), k \in 1..Len(op_writes) :
        op_writes[j] = op_writes[k] => j = k

\* C26: in every mode, for every document, all artifact writes of the
\* document come after all of its summarizer calls, and no write of one
\* document lies between two events of another document
C26_WritesComeLast ==
    /\ \A w \in 1..Len(log), c \in 1..Len(log) :
          (/\ log[w].ev \in {"write_summary", "write_metadata"}
           /\ log[c].ev = "summarize"
           /\ log[c].file = log[w].file) => c < w
    /\ \A j \in 1..Len(log), w \in 1..Len(log), l \in 1..Len(log) :
          (/\ j < w /\ w < l
           /\ log[w].ev \in {"write_summary", "write_metadata"}
           /\ log[j].file = log[l].file) => log[w].file = log[j].file

\* the directory lies in a news tree: one of its segments is `news`
InNewsTree(root) == \E k \in 1..Len(root.segs) : root.segs[k] = "news"

\* the directory is named YYYY-MM
DatedFolder(root) == root.segs # <<>> /\ Dated(root.segs[Len(root.segs)])

\* the directory lies below a folder named YYYY-MM
BelowDatedFolder(root) == \E k \in 1..(Len(root.segs) - 1) : Dated(root.segs[k])

\* C27: every processed file classified as a news article lies directly in a
\* directory named YYYY-MM; no file of a non-dated directory of a news tree
\* (such as the `news` directory given as input root) or of a subdirectory of
\* a dated folder is processed; no index.json and no non-.json file is processed
C27_NewsDiscovery ==
    fd_pc # "start" =>
        \A f \in files_to_process :
            /\ f.is_news_article => DatedFolder(f.root)
            /\ InNewsTree(f.root) => DatedFolder(f.root) /\ ~BelowDatedFolder(f.root)
            /\ f.fname \in {<<"a">> \o W_dot_json, <<"B", ".", "J", "S", "O", "N">>}

\* the text that cross mode summarizes for file i is not blank
CrossTextNonBlank(i) == ~(files[i].shape = "str" /\ files[i].content = "blank")

\* C28: when cross mode is run by the per-file loop, for every file with
\* non-blank text a warning is logged first, then the key over (file path,
\* theme, text) is checked once; on a hit nothing else happens, on a miss there
\* are exactly one summarizer call, one mark of that key and one artifact
\* <basename>_<theme>_cross_summary with its metadata.
C28_CrossPerFile ==
    mode = "cross" =>
        \A i \in 1..Len(files) :
            (Reached(i) /\ files[i].load = "ok" /\ CrossTextNonBlank(i)) =>
                /\ Cardinality(EvIdx(i, {"warning"})) = 1
                /\ \A w \in EvIdx(i, {"warning"}), k \in EvIdx(i, AllEvents) : w <= k
                /\ Cardinality(EvIdx(i, {"is_cached"})) = 1
                /\ \A c \in EvIdx(i, {"is_cached"}) :
                      /\ log[c].key = <<"cross", i, 0, <<"general_cross_summary", "content">> >>
                      /\ log[c].text = "hit" =>
                            EvIdx(i, WorkEvents \cup {"mark_cached"}) = {}
                      /\ log[c].text = "miss" =>
                            /\ Cardinality(EvIdx(i, {"summarize"})) = 1
                            /\ Cardinality(EvIdx(i, {"mark_cached"})) = 1
                            /\ \A m \in EvIdx(i, {"mark_cached"}) : log[m].key = log[c].key
                            /\ Cardinality(EvIdx(i, {"write_summary"})) = 1
                            /\ Cardinality(EvIdx(i, {"write_metadata"})) = 1
                            /\ \A p \in EvIdx(i, {"write_summary"}) :
                                  log[p].key = <<"cross", i, <<"cross", 0>>, "md">>

\* the contents of the chunks cs, one after the other
RECURSIVE ContentsOf(_)
ContentsOf(cs) == IF cs = <<>> THEN <<>> ELSE Head(cs).content \o ContentsOf(Tail(cs))

\* C29: for every text and every max_chunk_size >= 1 with max_chunk_size -
\* overlap <= 0, chunk_text returns consecutive non-overlapping windows, each at
\* most max_chunk_size characters long, whose concatenation equals the text.
C29_FallbackWindows ==
    (cpc = "returned" /\ max_chunk_size >= 1 /\ max_chunk_size - overlap <= 0) =>
        /\ ContentsOf(chunks) = text
        /\ \A k \in 1..Len(chunks) : Len(chunks[k].content) <= max_chunk_size

\* C30: for every text and every non-negative max_chunk_size and overlap, the
\* loop of chunk_text terminates: an iteration that does not leave the loop
\* through the tail branch moves the window start strictly forward, so the start
\* reaches the text length.
C30_StartIncreases ==
    [][(cpc = "loop" /\ cpc' = "loop") => start' > start]_chunkVars

\* test_chunker.py lines 150-160: the reference number of chunks for a text of
\* length n
ReferenceCount(n, m, o) == IF n <= m THEN 1 ELSE 1 + CeilDiv(n - m, m - o)

\* C31: for max_chunk_size > overlap >= 0 and a text of length L >= 1,
\* chunk_text returns 1 chunk when L <= max_chunk_size and
\* 1 + ceil((L - max_chunk_size) / (max_chunk_size - overlap)) chunks otherwise:
\* no chunk lies wholly inside the chunk before it.
C31_NoRedundantChunk ==
    (cpc = "returned" /\ max_chunk_size > overlap /\ text # <<>>) =>
        Len(chunks) = ReferenceCount(Len(text), max_chunk_size, overlap)

(***************************************************************************)
(* Claims about the retry loop of LLMSummarizer.summarize.                 *)
(***************************************************************************)
\* the positions in the trace of the LLM calls
CallIdx == {p \in 1..Len(rl_trace) : rl_trace[p].ev = "call"}

C33_ContentNormalized ==
    (gs_pc = "returned" /\ gs_data.shape = "dict" /\ gs_data.content.t = "str"
        /\ Len(gs_data.content.s) >= gs_min_length) =>
        /\ Len(gs_result.sections) = 1
        /\ gs_result.sections[1].content = StripHtml(gs_data.content.s)

(***************************************************************************)
(* Claims about what the cache records.                                    *)
(***************************************************************************)
\* C34: in every mode a unit's cache key is marked only when the summarizer
\* call of that unit returned a real summary: no mark follows a call whose
\* result is an error string (so a later run calls the summarizer again).
C34_ErrorsNotCached ==
    \A k \in 1..Len(log) :
        log[k].ev = "mark_cached" =>
            \A j \in 1..(k - 1) :
                (log[j].ev = "summarize" /\ log[j].file = log[k].file
                    /\ log[j].unit = log[k].unit) => ~IsErrorText(log[j].text)

\* C35: at every point of a run, for every marked cache key the artifact of its
\* unit has already been written: mark_cached of a unit is never called before
\* write_summary and write_metadata of that unit.
C35_CachedImpliesWritten ==
    \A k \in 1..Len(log) :
        log[k].ev = "mark_cached" =>
            \A kind \in {"write_summary", "write_metadata"} :
                \E w \in 1..(k - 1) :
                    /\ log[w].ev = kind
                    /\ log[w].file = log[k].file
                    /\ log[w].unit = log[k].unit

\* C36: in file mode, starting from an empty cache, no document is skipped as
\* cached because another document of the same run produced the same key, and
\* after the run every readable document with non-blank text has its own
\* summary artifact.
C36_NoCrossDocumentCollision ==
    (mode = "file" /\ runNo = 1) =>
        \A i \in 1..Len(files) :
            /\ \A k \in EvIdx(i, {"is_cached"}) : log[k].text = "miss"
            /\ (rpc = "returned" /\ faults = {} /\ files[i].load = "ok"
                   /\ FileTextKind(files[i]) \in {"text", "big"})
                  => Exists(outFiles, Path("file", i, <<"file", 0>>, "md"))

\* the texts of the node-level summaries of file i that exist on disk, from
\* section n on, in the order of the section numbers
RECURSIVE ExistingNodeTexts(_, _)
ExistingNodeTexts(i, n) ==
    IF n > Len(files[i].sections) THEN <<>>
    ELSE (IF HasNodeSummary(i, n) THEN <<NodeTexts(i, n)[n]>> ELSE <<>>)
            \o ExistingNodeTexts(i, n + 1)

\* C37: after node mode has run on a filing, the combined text that master
\* mode summarizes holds every node-level summary artifact that exists for the
\* filing, also when a section number has no artifact because node mode
\* skipped a blank section.
C37_MasterUsesEveryNodeSummary ==
    mode = "master" =>
        \A i \in 1..Len(files) :
            \A c \in EvIdx(i, {"is_cached"}) :
                log[c].key = <<"master", i, 0,
                               <<Join(ExistingNodeTexts(i, 1), NodeSeparator)>> >>

(***************************************************************************)
(* Claims about the sizes handed to the chunker.                           *)
(***************************************************************************)
\* C38: for every oversized news text the overlap computed by the
\* orchestrator is strictly smaller than the computed chunk size and not
\* negative, so the step max_chunk_size - overlap of the chunker is positive
\* and its non-overlapping fallback is not taken.
C38_OverlapBelowChunkSize ==
    (dc_pc = "planned" /\ plan.chunked) =>
        /\ plan.char_chunk_overlap >= 0
        /\ plan.char_chunk_size_for_splitter > plan.char_chunk_overlap
        /\ ~(plan.char_chunk_size_for_splitter - plan.char_chunk_overlap <= 0)

\* a text of 1,750,000 characters: 10 chunks of 175,000 with an overlap of 17,500
C38_Witness ==
    /\ dc_pc = "planned"
    /\ plan.chunked
    /\ total_chars = 1750000
    /\ plan.char_chunk_size_for_splitter = 175000
    /\ plan.char_chunk_overlap = 17500

====
